---- MODULE Spec2Model ----
(***************************************************************************)
(* Model of the retrieval-augmented generation pipeline of the backend:    *)
(* VectorStoreService (vector_store_service.py), RetrievalService          *)
(* (retrieval_service.py), LLMService (llm_service.py) and RAGService      *)
(* (rag_service.py), with the ingestion side: TextSplitter                 *)
(* (text_splitter.py), VectorDatabase (vector_db.py) and the background    *)
(* reindex of the documents routes (documents.py).                         *)
(*                                                                         *)
(* A collection handle is the number of the creation it was taken from, so *)
(* that a handle kept across a delete is told from a fresh one.  The       *)
(* background task takes one step per client or cache access; the calls of *)
(* the request thread interleave with those steps.                         *)
(*                                                                         *)
(* WebCrawler (web_crawler.py) is the crawler the service keeps for its    *)
(* lifetime: crawl() takes one step per pass of its loop, and a fetched    *)
(* page carries whatever hrefs the site serves at that moment.  The time   *)
(* stamp of a page is the number of the call that fetched it.              *)
(*                                                                         *)
(* Floats are fixed-point tenths: Scale stands for 1.0, a distance of 4    *)
(* for 0.4, a threshold of 6 for 0.6.  Strings that the code searches or   *)
(* rewrites are sequences of tokens, so that substring search and          *)
(* replacement are computed and not assumed.                               *)
(***************************************************************************)
EXTENDS Integers, Sequences, FiniteSets, TLC

\* ------------------------------------------------------------------ bounds
MaxEntries == 2      \* entries stored per collection
MaxTopK == 2         \* largest top_k a caller passes explicitly
MaxColls == 2        \* longest `collections` list of retrieve_multi_collection
MaxCtx == 11         \* longest context list handed to _process_response
MaxPhrases == 2      \* phrases in one answer text
MaxDocs == 2         \* documents handed to one add_documents call
MaxStored == 2       \* entries the store grows to by add_documents
MaxIds == 4          \* ids handed to one VectorDatabase.add_documents call
MaxText == 4         \* characters of a text handed to the splitter
MaxChunk == 3        \* largest chunk_size passed explicitly
MaxCreated == 2      \* collections created under one name
MaxSentence == 40    \* longest single sentence handed to _simple_split
MaxLinks == 2        \* hrefs on one fetched page
MaxCalls == 2        \* ingestion and crawl calls in one behaviour

\* --------------------------------------------------------- program constants
Scale == 10                   \* the 1 of `similarity = 1 - dist`
RETRIEVAL_TOP_K == 5          \* settings.RETRIEVAL_TOP_K
RETRIEVAL_THRESHOLD == 6      \* settings.RETRIEVAL_THRESHOLD (0.6)
WEB_CRAWL_BASE_URL == "support"
WEB_CRAWL_COLLECTION == "web_documents"
CHUNK_SIZE == 500             \* settings.CHUNK_SIZE
CHUNK_OVERLAP == 50           \* settings.CHUNK_OVERLAP

Names == {"documents", WEB_CRAWL_COLLECTION}
Thresholds == {-5, 0, 6, 9}
TopKs == 1..MaxTopK
Faults == {"none", "collection", "embedding", "index"}

\* retrieve_multi_collection: the thresholds tried, and what can be wrong
\* with one collection for the length of a call
MultiThresholds == {-5, 6}
MultiFaults == {"none", "collection", "index"}

\* ------------------------------------------------------------ sequence help
Range(s) == {s[i] : i \in DOMAIN s}

Min(a, b) == IF a < b THEN a ELSE b

\* s[:k] of Python, k >= 0
Take(s, k) == SubSeq(s, 1, Min(k, Len(s)))

RECURSIVE SelectIdx(_, _, _)
\* the subsequence of s at the positions in keep, from position i on
SelectIdx(s, keep, i) ==
  IF i > Len(s) THEN <<>>
  ELSE (IF i \in keep THEN <<s[i]>> ELSE <<>>) \o SelectIdx(s, keep, i + 1)

RECURSIVE Concat(_)
Concat(ss) == IF ss = <<>> THEN <<>> ELSE Head(ss) \o Concat(Tail(ss))

\* sequences without repetition of at most n elements of S
SeqsNoRep(S, n) ==
  UNION {{s \in [1..k -> S] : \A i, j \in 1..k : i # j => s[i] # s[j]} : k \in 0..n}

\* sequences of at most n elements of S
SeqsUpTo(S, n) == UNION {[1..k -> S] : k \in 0..n}

\* list.sort(key=similarity, reverse=True) / sorted(...): stable, descending.
\* The element at position i goes behind every element with a higher
\* similarity and behind the earlier elements with the same similarity.
SortRank(s, i) ==
  Cardinality({j \in DOMAIN s : \/ s[j].similarity > s[i].similarity
                                \/ s[j].similarity = s[i].similarity /\ j < i})

SortBySimilarityDesc(s) ==
  [r \in DOMAIN s |-> s[CHOOSE i \in DOMAIN s : SortRank(s, i) = r - 1]]

\* ------------------------------------------------------------------ entries
Meta(source, page, source_type) ==
  [source |-> source, page |-> page, source_type |-> source_type,
   collection |-> "unset"]

Entry(content, meta, dist) == [content |-> content, metadata |-> meta, dist |-> dist]

\* what the loaders store: PDF pages carry a page, DOCX/text and web do not
DocPool ==
  { Entry(<<"d", 1>>, Meta(<<"plan", ".pdf">>, "p1", ""), 2),
    Entry(<<"d", 2>>, Meta(<<"plan", ".pdf">>, "p2", ""), 4),
    Entry(<<"d", 3>>, Meta(<<"faq", ".docx">>, "", ""), 12) }

WebPool ==
  { Entry(<<"w", 1>>, Meta(<<"url1">>, "", "web"), 2),
    Entry(<<"w", 2>>, Meta(<<"url1">>, "", "web_faq"), 15) }

VARIABLES
  exists,       \* names of the collections the ChromaDB client holds
  entries,      \* name -> stored entries, each with its distance to the query
  collections,  \* VectorStoreService.collections: names with a cached handle
  created,      \* name -> how many collections the client created under it
  handles,      \* name -> the cached handle: the creation it refers to
  task,         \* the background task (reset / reindex / upload) in flight
  pc,           \* position of the caller
  op,           \* operation in flight or just returned
  args,         \* its arguments
  cands,        \* per sub-query: the candidates the index reported
  failed,       \* per sub-query: an exception was caught inside query()
  parts,        \* per sub-query: the list retrieve() returned
  context,      \* fused context list / list returned by the operation
  llm,          \* outcome of the generative-model call of this operation
  llmCalls,     \* model invocations during this operation
  genRaised,    \* generate_response raised to its caller
  result,       \* value returned by process_query / _process_response
  raised,       \* the operation raised to its caller
  web_crawler,  \* RAGService.web_crawler: visited_urls, queue, content_data
  output_file,  \* the pages saved in angel_one_support.json, <<>> without file
  requests,     \* every requests.get so far: its url and the call it served
  calls         \* ingestion and crawl calls started so far: the timestamp

vars == <<exists, entries, collections, created, handles, task, pc, op, args,
          cands, failed, parts, context, llm, llmCalls, genRaised, result,
          raised, web_crawler, output_file, requests, calls>>

crawlVars == <<web_crawler, output_file, requests, calls>>

NoResult == [text |-> <<>>, sources |-> <<>>]
NoArgs == [none |-> TRUE]
NoTask == [kind |-> "none"]

\* ------------------------------------------------------ VectorStoreService
\* the part of the service state the operations read and write
Store(ex, en, co, ge, ha) ==
  [exists |-> ex, entries |-> en, collections |-> co, created |-> ge, handles |-> ha]

\* client.get_or_create_collection: opens the collection of that name, or
\* creates one when there is none
ClientGetOrCreate(st, name) ==
  IF name \in st.exists THEN st
  ELSE [st EXCEPT !.exists = @ \cup {name}, !.created[name] = @ + 1]

\* a handle works as long as the collection it was taken from exists
Live(st, name, handle) == name \in st.exists /\ handle = st.created[name]

GetOrCreateCollectionMut(st, name, clientDown) ==
  IF name \in st.collections
  THEN [raised |-> FALSE, handle |-> st.handles[name], st |-> st]
  ELSE IF clientDown THEN [raised |-> TRUE, handle |-> 0, st |-> st]
  ELSE LET c == ClientGetOrCreate(st, name)
       IN [raised |-> FALSE, handle |-> c.created[name], st |-> c]

\* get_or_create_collection: a cached handle is returned as is; otherwise the
\* client is asked (which raises when it is down), and the handle is cached.
GetOrCreateCollection(st, name, clientDown) ==
  IF name \in st.collections
  THEN [raised |-> FALSE, handle |-> st.handles[name], st |-> st]
  ELSE IF clientDown THEN [raised |-> TRUE, handle |-> 0, st |-> st]
  ELSE LET c == ClientGetOrCreate(st, name)
       IN [raised |-> FALSE, handle |-> c.created[name],
           st |-> [c EXCEPT !.collections = @ \cup {name},
                            !.handles[name] = c.created[name]]]

\* collection.query(n_results=top_k): the top_k stored entries nearest to the
\* query.  The order of the report is the index's; it is taken to be the
\* stored order, which Init draws in every permutation.
NearRank(stored, i) ==
  Cardinality({j \in DOMAIN stored : \/ stored[j].dist < stored[i].dist
                                     \/ stored[j].dist = stored[i].dist /\ j < i})

IndexQuery(stored, top_k) ==
  SelectIdx(stored, {i \in DOMAIN stored : NearRank(stored, i) < top_k}, 1)

SimilarityMut(dist) == dist

\* similarity = 1 - dist
Similarity(dist) == Scale - dist

PassesThresholdMut(similarity, threshold) == similarity > threshold

\* if similarity >= threshold
PassesThreshold(similarity, threshold) == similarity >= threshold

RelevantDocsMut(reported, threshold) ==
  LET all == [i \in DOMAIN reported |->
                [content |-> reported[Len(reported) + 1 - i].content,
                 metadata |-> reported[Len(reported) + 1 - i].metadata,
                 similarity |-> Similarity(reported[Len(reported) + 1 - i].dist)]]
  IN SelectIdx(all, {i \in DOMAIN all :
                       PassesThreshold(all[i].similarity, threshold)}, 1)

\* the zip loop of query(): one result per candidate that passes
RelevantDocs(reported, threshold) ==
  LET all == [i \in DOMAIN reported |->
                [content |-> reported[i].content,
                 metadata |-> reported[i].metadata,
                 similarity |-> Similarity(reported[i].dist)]]
  IN SelectIdx(all, {i \in DOMAIN all :
                       PassesThreshold(all[i].similarity, threshold)}, 1)

\* the orders in which an index may report the top_k nearest entries
Reports(stored, top_k) ==
  LET nearest == IndexQuery(stored, top_k)
  IN {s \in SeqsNoRep(Range(nearest), Len(nearest)) : Len(s) = Len(nearest)}

QueryReturn(res, reported, didFail, didRaise, st) ==
  [result |-> res, cands |-> reported, failed |-> didFail,
   raised |-> didRaise, st |-> st]

VSQueryMut(st, name, top_k, threshold, fault) ==
  LET g == GetOrCreateCollection(st, name, fault = "collection")
  IN IF g.raised THEN QueryReturn(<<>>, <<>>, TRUE, TRUE, g.st)
     ELSE IF fault \in {"embedding", "index"} \/ ~Live(g.st, name, g.handle)
          THEN QueryReturn(<<>>, <<>>, TRUE, TRUE, g.st)
          ELSE LET reported == IndexQuery(g.st.entries[name], top_k)
               IN QueryReturn(RelevantDocs(reported, threshold), reported,
                              FALSE, FALSE, g.st)

\* VectorStoreService.query: everything runs inside try/except Exception,
\* whose handler returns [].  collection.query on the handle of a deleted
\* collection raises like a failing lookup.
VSQuery(st, name, top_k, threshold, fault) ==
  LET g == GetOrCreateCollection(st, name, fault = "collection")
  IN IF g.raised THEN QueryReturn(<<>>, <<>>, TRUE, FALSE, g.st)
     ELSE IF fault \in {"embedding", "index"} \/ ~Live(g.st, name, g.handle)
          THEN QueryReturn(<<>>, <<>>, TRUE, FALSE, g.st)
          ELSE LET reported == IndexQuery(g.st.entries[name], top_k)
               IN QueryReturn(RelevantDocs(reported, threshold), reported,
                              FALSE, FALSE, g.st)

\* --------------------------------------------------------- RetrievalService
RetrieveMut(st, name, top_k, threshold, fault) ==
  LET q == VSQuery(st, name, top_k, threshold, fault)
  IN [q EXCEPT !.raised = q.failed]

\* retrieve: delegates to query(); its own try/except returns [] as well.
Retrieve(st, name, top_k, threshold, fault) ==
  LET q == VSQuery(st, name, top_k, threshold, fault)
  IN IF q.raised THEN QueryReturn(<<>>, q.cands, TRUE, FALSE, q.st) ELSE q

\* metadata["collection"] = collection_name on every result
Stamp(results, name) ==
  [i \in DOMAIN results |->
     [results[i] EXCEPT !.metadata.collection = name]]

FuseMut(all_results, top_k) == Take(all_results, top_k)

\* sort by similarity descending, then all_results[:top_k]
Fuse(all_results, top_k) ==
  LET sorted == SortBySimilarityDesc(all_results)
  IN IF Len(sorted) > top_k THEN Take(sorted, top_k) ELSE sorted

RECURSIVE MultiLoop(_, _, _, _, _, _, _)
\* the for loop of retrieve_multi_collection from position i on
MultiLoop(st, colls, faults, top_k, threshold, i, acc) ==
  IF i > Len(colls) \/ acc.raised THEN [acc EXCEPT !.st = st]
  ELSE LET r == Retrieve(st, colls[i], top_k, threshold, faults[i])
       IN MultiLoop(r.st, colls, faults, top_k, threshold, i + 1,
                    [acc EXCEPT !.parts = Append(@, Stamp(r.result, colls[i])),
                                !.cands = Append(@, r.cands),
                                !.failed = Append(@, r.failed),
                                !.raised = r.raised])

\* retrieve_multi_collection: an exception anywhere in the body is caught by
\* the outer handler, which returns [].
RetrieveMultiCollection(st, colls, faults, top_k, threshold) ==
  LET l == MultiLoop(st, colls, faults, top_k, threshold, 1,
                     [parts |-> <<>>, cands |-> <<>>, failed |-> <<>>,
                      raised |-> FALSE, st |-> st])
  IN [result |-> IF l.raised THEN <<>> ELSE Fuse(Concat(l.parts), top_k),
      parts |-> l.parts, cands |-> l.cands, failed |-> l.failed,
      raised |-> FALSE, st |-> l.st]

\* --------------------------------------------------------------- LLMService
DigitTokens == <<"0", "1", "2", "3", "4", "5", "6", "7", "8", "9">>

RECURSIVE Digits(_)
\* str(n) for n >= 0, one token per decimal digit
Digits(n) ==
  IF n < 10 THEN <<DigitTokens[n + 1]>>
  ELSE Digits(n \div 10) \o <<DigitTokens[(n % 10) + 1]>>

\* `pat in text` of Python
Contains(text, pat) ==
  \E k \in 0..(Len(text) - Len(pat)) : SubSeq(text, k + 1, k + Len(pat)) = pat

IsWeb(source_type) == source_type = "web" \/ source_type = "web_faq"

\* f"Web Document {i+1}" / f"Document {i+1}", i the 1-based position here
DocMarker(i, source_type) ==
  IF IsWeb(source_type) THEN <<"Web ", "Document ">> \o Digits(i)
  ELSE <<"Document ">> \o Digits(i)

RECURSIVE ReplaceTokens(_)
\* source.replace("_", " ").replace(".pdf", "").replace(".docx", "")
ReplaceTokens(source) ==
  IF source = <<>> THEN <<>>
  ELSE LET h == Head(source)
           r == ReplaceTokens(Tail(source))
       IN IF h = "_" THEN <<" ">> \o r
          ELSE IF h = ".pdf" \/ h = ".docx" THEN r
          ELSE <<h>> \o r

SourceName(source, source_type) ==
  IF IsWeb(source_type) THEN source ELSE ReplaceTokens(source)

\* page if page else None
PageOrNone(page) == IF page = "" THEN "None" ELSE page

SourceInfo(doc) ==
  [content |-> doc.content,
   metadata |-> [source |-> SourceName(doc.metadata.source, doc.metadata.source_type),
                 page |-> PageOrNone(doc.metadata.page),
                 source_type |-> doc.metadata.source_type],
   similarity |-> doc.similarity]

\* the duplicate test of the citation loop: the stored source name against
\* source_name, the stored page against the raw page of the passage
AlreadyListed(sources, doc) ==
  \E k \in DOMAIN sources :
     /\ sources[k].metadata.source
          = SourceName(doc.metadata.source, doc.metadata.source_type)
     /\ sources[k].metadata.page = doc.metadata.page

RECURSIVE CitedSources(_, _, _, _)
\* the loop over enumerate(context) from position i on
CitedSources(response_text, ctx, i, sources) ==
  IF i > Len(ctx) THEN sources
  ELSE IF /\ Contains(response_text, DocMarker(i, ctx[i].metadata.source_type))
          /\ ~AlreadyListed(sources, ctx[i])
       THEN CitedSources(response_text, ctx, i + 1, Append(sources, SourceInfo(ctx[i])))
       ELSE CitedSources(response_text, ctx, i + 1, sources)

FallbackSourcesMut(ctx) ==
  LET top == Take(ctx, 1)
  IN [k \in DOMAIN top |-> SourceInfo(top[k])]

\* sorted(context, key=similarity, reverse=True)[:2]
FallbackSources(ctx) ==
  LET top == Take(SortBySimilarityDesc(ctx), 2)
  IN [k \in DOMAIN top |-> SourceInfo(top[k])]

ProcessResponse(response_text, ctx) ==
  LET cited == CitedSources(response_text, ctx, 1, <<>>)
  IN [text |-> response_text,
      sources |-> IF cited = <<>> /\ ctx # <<>> THEN FallbackSources(ctx)
                  ELSE cited]

DontKnowText == <<"I Don't Know.">>

\* _generate_dont_know_response
DontKnowResponse == [text |-> DontKnowText, sources |-> <<>>]

LLMFail == [ok |-> FALSE, text |-> <<>>]
LLMAnswer(text) == [ok |-> TRUE, text |-> text]
LLMNotCalled == [ok |-> TRUE, text |-> <<"not called">>]

GenerateResponseMut(ctx, outcome) ==
  IF ~outcome.ok THEN [raised |-> TRUE, value |-> NoResult, calls |-> 1]
  ELSE [raised |-> FALSE, value |-> ProcessResponse(outcome.text, ctx), calls |-> 1]

GenerateResponseRetryMut(ctx, outcome) ==
  IF ctx = <<>> THEN [raised |-> FALSE, value |-> DontKnowResponse, calls |-> 0]
  ELSE IF ~outcome.ok THEN [raised |-> TRUE, value |-> NoResult, calls |-> 2]
  ELSE [raised |-> FALSE, value |-> ProcessResponse(outcome.text, ctx), calls |-> 1]

\* generate_response: no context -> fixed answer without a model call;
\* otherwise one model call, whose exception is logged and re-raised.
GenerateResponse(ctx, outcome) ==
  IF ctx = <<>> THEN [raised |-> FALSE, value |-> DontKnowResponse, calls |-> 0]
  ELSE IF ~outcome.ok THEN [raised |-> TRUE, value |-> NoResult, calls |-> 1]
  ELSE [raised |-> FALSE, value |-> ProcessResponse(outcome.text, ctx), calls |-> 1]

\* the citation line of _format_context for the passage at 1-based position
\* i: f"[Web Document {i+1}: {source}]", f"[Document {i+1}: {source_name}
\* (Page {page})]" or f"[Document {i+1}: {source_name}]"
SourceCitation(i, metadata) ==
  IF IsWeb(metadata.source_type)
  THEN <<"[", "Web ", "Document ">> \o Digits(i) \o <<": ">>
         \o metadata.source \o <<"]">>
  ELSE LET source_name == ReplaceTokens(metadata.source)
       IN IF metadata.page # ""
          THEN <<"[", "Document ">> \o Digits(i) \o <<": ">> \o source_name
                 \o <<" (Page ", metadata.page, ")", "]">>
          ELSE <<"[", "Document ">> \o Digits(i) \o <<": ">> \o source_name
                 \o <<"]">>

\* f"{source_citation}\n{content}\n"
ContextPart(i, doc) ==
  SourceCitation(i, doc.metadata) \o <<"\n">> \o doc.content \o <<"\n">>

RECURSIVE JoinLines(_)
\* "\n".join(context_parts)
JoinLines(context_parts) ==
  IF context_parts = <<>> THEN <<>>
  ELSE IF Len(context_parts) = 1 THEN context_parts[1]
  ELSE context_parts[1] \o <<"\n">> \o JoinLines(Tail(context_parts))

FormatContextMut(ctx) ==
  LET context_parts == [i \in DOMAIN ctx |-> ContextPart(i - 1, ctx[i])]
  IN [parts |-> context_parts, text |-> JoinLines(context_parts)]

\* _format_context: one part per passage, in the order of the list
FormatContext(ctx) ==
  LET context_parts == [i \in DOMAIN ctx |-> ContextPart(i, ctx[i])]
  IN [parts |-> context_parts, text |-> JoinLines(context_parts)]

\* ---------------------------------------------- VectorStoreService: writes
\* client.delete_collection: raises when the client fails or when there is
\* no collection of that name; otherwise the collection and its entries go
ClientDelete(st, name, clientDown) ==
  IF clientDown \/ name \notin st.exists THEN [raised |-> TRUE, st |-> st]
  ELSE [raised |-> FALSE,
        st |-> [st EXCEPT !.exists = @ \ {name}, !.entries[name] = <<>>]]

\* client.create_collection: raises when the client fails or when a
\* collection of that name exists; otherwise a new, empty collection
ClientCreate(st, name, clientDown) ==
  IF clientDown \/ name \in st.exists
  THEN [raised |-> TRUE, handle |-> 0, st |-> st]
  ELSE [raised |-> FALSE, handle |-> st.created[name] + 1,
        st |-> [st EXCEPT !.exists = @ \cup {name}, !.created[name] = @ + 1,
                          !.entries[name] = <<>>]]

UncacheMut(st, name) == [st EXCEPT !.collections = {}]

\* reset_collection: `if collection_name in self.collections: del ...`
Uncache(st, name) == [st EXCEPT !.collections = @ \ {name}]

\* reset_collection: `self.collections[collection_name] = collection`
Cache(st, name, handle) ==
  [st EXCEPT !.collections = @ \cup {name}, !.handles[name] = handle]

\* ids as add_documents composes them: "doc_", source, page or position,
\* chunk or position, eight characters of a uuid4; "/" becomes "_"
Keyed(value, i) == IF value = "" THEN Digits(i) ELSE <<value>>

DocId(metadata, i, uuid) ==
  <<"doc_">> \o [k \in DOMAIN metadata.source |->
                   IF metadata.source[k] = "/" THEN "_" ELSE metadata.source[k]]
           \o <<"_">> \o Keyed(metadata.page, i)
           \o <<"_">> \o Keyed(metadata.chunk, i) \o <<"_", uuid>>

KeptMut(documents) == DOMAIN documents

\* positions (from 1) of the documents add_documents keeps: `if not content`
Kept(documents) == {i \in DOMAIN documents : documents[i].content # <<>>}

\* the entry the index stores for one (id, text, metadata)
Stored(id, content, metadata) ==
  [id |-> id, content |-> content, metadata |-> metadata, dist |-> 3]

HasDuplicates(s) == \E i, j \in DOMAIN s : i # j /\ s[i] = s[j]

\* collection.add(ids, documents, metadatas) of the index: raises on a dead
\* handle, on a failing embedding and on ids repeated within the call; an id
\* that is already stored is skipped without an error
CollectionAdd(st, name, handle, ids, texts, metadatas, fault) ==
  IF ~Live(st, name, handle) \/ fault \/ HasDuplicates(ids)
  THEN [raised |-> TRUE, st |-> st]
  ELSE LET have == {st.entries[name][k].id : k \in DOMAIN st.entries[name]}
           new == [k \in DOMAIN ids |-> Stored(ids[k], texts[k], metadatas[k])]
       IN [raised |-> FALSE,
           st |-> [st EXCEPT !.entries[name] =
                     @ \o SelectIdx(new, {k \in DOMAIN ids : ids[k] \notin have}, 1)]]

AddReturn(didRaise, wasCalled, ids, texts, metadatas, st) ==
  [raised |-> didRaise, called |-> wasCalled, ids |-> ids, texts |-> texts,
   metadatas |-> metadatas, st |-> st]

\* VectorStoreService.add_documents; uuids[i] is the uuid4 drawn for the
\* document at position i, fault is "collection", "index" or "none"
AddDocuments(st, documents, name, uuids, fault) ==
  IF documents = <<>> THEN AddReturn(FALSE, FALSE, <<>>, <<>>, <<>>, st)
  ELSE LET g == GetOrCreateCollection(st, name, fault = "collection")
           keep == Kept(documents)
           ids == SelectIdx([i \in DOMAIN documents |->
                              DocId(documents[i].metadata, i - 1, uuids[i])],
                            keep, 1)
           texts == SelectIdx([i \in DOMAIN documents |-> documents[i].content],
                              keep, 1)
           metadatas == SelectIdx([i \in DOMAIN documents |-> documents[i].metadata],
                                  keep, 1)
       IN IF g.raised THEN AddReturn(TRUE, FALSE, <<>>, <<>>, <<>>, g.st)
          ELSE IF texts = <<>> THEN AddReturn(FALSE, FALSE, <<>>, <<>>, <<>>, g.st)
          ELSE LET a == CollectionAdd(g.st, name, g.handle, ids, texts, metadatas,
                                      fault = "index")
               IN AddReturn(a.raised, TRUE, ids, texts, metadatas, a.st)

\* ----------------------------------------------------------- VectorDatabase
RECURSIVE UniqueIdsLoop(_, _, _, _)
\* the for loop of add_documents over ids from position i on; id_counts is
\* the dict of the loop, unique_ids the list it appends to
UniqueIdsLoop(ids, i, id_counts, unique_ids) ==
  IF i > Len(ids) THEN unique_ids
  ELSE LET doc_id == ids[i]
       IN IF doc_id \in DOMAIN id_counts
          THEN LET n == id_counts[doc_id] + 1
               IN UniqueIdsLoop(ids, i + 1, [id_counts EXCEPT ![doc_id] = n],
                                Append(unique_ids, doc_id \o <<"_">> \o Digits(n)))
          ELSE UniqueIdsLoop(ids, i + 1, (doc_id :> 0) @@ id_counts,
                             Append(unique_ids, doc_id))

\* VectorDatabase.add_documents: the ids handed to collection.add
UniqueIds(ids) ==
  IF Len(ids) # Cardinality(Range(ids))
  THEN UniqueIdsLoop(ids, 1, <<>>, <<>>)
  ELSE ids

\* ------------------------------------------------------------- TextSplitter
\* a text is a sequence of characters
Whitespace == {" ", "\n"}
SentenceEnd == {".", "!", "?"}

RECURSIVE LStrip(_)
LStrip(s) == IF s # <<>> /\ Head(s) \in Whitespace THEN LStrip(Tail(s)) ELSE s

RECURSIVE RStrip(_)
RStrip(s) ==
  IF s # <<>> /\ s[Len(s)] \in Whitespace THEN RStrip(SubSeq(s, 1, Len(s) - 1))
  ELSE s

\* str.strip()
Strip(s) == RStrip(LStrip(s))

\* the end of the match of \n\s*\n that starts at position i, 0 for none:
\* the last newline of the whitespace that follows a newline at i
ParagraphBreakEnd(text, i) ==
  LET ends == {j \in (i + 1)..Len(text) :
                 /\ text[j] = "\n"
                 /\ \A k \in i..j : text[k] \in Whitespace}
  IN IF text[i] = "\n" /\ ends # {}
     THEN CHOOSE j \in ends : \A k \in ends : k <= j
     ELSE 0

RECURSIVE SplitParagraphs(_, _, _)
\* re.split(r'\n\s*\n', text) from position i on, cur being the piece so far
SplitParagraphs(text, i, cur) ==
  IF i > Len(text) THEN <<cur>>
  ELSE LET e == ParagraphBreakEnd(text, i)
       IN IF e > 0 THEN <<cur>> \o SplitParagraphs(text, e + 1, <<>>)
          ELSE SplitParagraphs(text, i + 1, Append(cur, text[i]))

\* the end of the match of (?<=[.!?])\s+ that starts at position i, 0 for
\* none: the whole run of whitespace behind a sentence end
SentenceBreakEnd(text, i) ==
  IF i > 1 /\ text[i] \in Whitespace /\ text[i - 1] \in SentenceEnd
  THEN CHOOSE j \in i..Len(text) :
         /\ \A k \in i..j : text[k] \in Whitespace
         /\ (j = Len(text) \/ text[j + 1] \notin Whitespace)
  ELSE 0

RECURSIVE SplitSentences(_, _, _)
\* re.split(r'(?<=[.!?])\s+', paragraph) from position i on
SplitSentences(text, i, cur) ==
  IF i > Len(text) THEN <<cur>>
  ELSE LET e == SentenceBreakEnd(text, i)
       IN IF e > 0 THEN <<cur>> \o SplitSentences(text, e + 1, <<>>)
          ELSE SplitSentences(text, i + 1, Append(cur, text[i]))

RECURSIVE Slices(_, _, _, _)
\* [s[i:i + width] for i in range(start, len(s), step)], start from 0
Slices(s, start, step, width) ==
  IF start >= Len(s) THEN <<>>
  ELSE <<SubSeq(s, start + 1, Min(start + width, Len(s)))>>
       \o Slices(s, start + step, step, width)

\* `if current_chunk: chunks.append(current_chunk.strip())`
Flush(chunks, current_chunk) ==
  IF current_chunk # <<>> THEN Append(chunks, Strip(current_chunk)) ELSE chunks

RECURSIVE SentenceLoop(_, _, _, _, _)
\* the loop of _simple_split over the sentences of a long paragraph
SentenceLoop(sentences, j, max_len, chunks, current_chunk) ==
  IF j > Len(sentences) THEN [chunks |-> chunks, current_chunk |-> current_chunk]
  ELSE LET sentence == sentences[j]
           overlap == Min(100, max_len \div 10)
       IN IF Len(current_chunk) + Len(sentence) <= max_len
          THEN SentenceLoop(sentences, j + 1, max_len, chunks,
                            current_chunk \o sentence \o <<" ">>)
          ELSE IF Len(sentence) > max_len
          THEN SentenceLoop(sentences, j + 1, max_len,
                            Flush(chunks, current_chunk)
                              \o Slices(sentence, 0, max_len - overlap, max_len),
                            <<>>)
          ELSE SentenceLoop(sentences, j + 1, max_len,
                            Flush(chunks, current_chunk), sentence \o <<" ">>)

RECURSIVE ParagraphLoop(_, _, _, _, _)
\* the loop of _simple_split over the paragraphs
ParagraphLoop(paragraphs, i, max_len, chunks, current_chunk) ==
  IF i > Len(paragraphs) THEN Flush(chunks, current_chunk)
  ELSE LET paragraph == paragraphs[i]
       IN IF Len(current_chunk) + Len(paragraph) <= max_len
          THEN ParagraphLoop(paragraphs, i + 1, max_len, chunks,
                             current_chunk \o paragraph \o <<"\n", "\n">>)
          ELSE IF Len(paragraph) <= max_len
          THEN ParagraphLoop(paragraphs, i + 1, max_len,
                             Flush(chunks, current_chunk),
                             paragraph \o <<"\n", "\n">>)
          ELSE LET l == SentenceLoop(SplitSentences(paragraph, 1, <<>>), 1,
                                     max_len, Flush(chunks, current_chunk), <<>>)
               IN ParagraphLoop(paragraphs, i + 1, max_len, l.chunks,
                                l.current_chunk)

\* _simple_split(text) with max_length left out: max_len is chunk_size
SimpleSplit(text, chunk_size) ==
  ParagraphLoop(SplitParagraphs(text, 1, <<>>), 1, chunk_size, <<>>, <<>>)

\* RecursiveCharacterTextSplitter.split_text is not part of the repository.
\* Its outcome is a choice: it raises (width 0), or it returns the stripped
\* text cut into pieces of one width up to chunk_size, each stripped, the
\* empty ones left out.
RecursiveSplit(text, width) ==
  LET pieces == Slices(Strip(text), 0, width, width)
      stripped == [k \in DOMAIN pieces |-> Strip(pieces[k])]
  IN SelectIdx(stripped, {k \in DOMAIN stripped : stripped[k] # <<>>}, 1)

\* split_text: nothing for an empty text; the library's chunks, or those of
\* _simple_split when the library raises
SplitText(text, chunk_size, width) ==
  IF text = <<>> THEN <<>>
  ELSE IF width = 0 THEN SimpleSplit(text, chunk_size)
  ELSE RecursiveSplit(text, width)

\* chunk_metadata = metadata.copy(); chunk_metadata.update({...})
StampChunk(metadata, i, total) ==
  [chunk |-> i, total_chunks |-> total] @@ metadata

RECURSIVE SplitDocuments(_, _, _, _)
\* split_documents from the document at position d on; widths[d] is what the
\* library does with that document
SplitDocuments(documents, d, chunk_size, widths) ==
  IF d > Len(documents) THEN <<>>
  ELSE LET content == documents[d].content
           text_chunks == SplitText(content, chunk_size, widths[d])
           chunk_docs == [i \in DOMAIN text_chunks |->
                            [content |-> text_chunks[i],
                             metadata |-> StampChunk(documents[d].metadata, i - 1,
                                                     Len(text_chunks))]]
       IN (IF content = <<>> THEN <<>> ELSE chunk_docs)
          \o SplitDocuments(documents, d + 1, chunk_size, widths)

\* --------------------------------------------------------------- RAGService
ErrorText == <<"I encountered an error while processing your query. Please try again.">>

ErrorResponse == [text |-> ErrorText, sources |-> <<>>]

\* `x or default`: None and 0 are falsy.  An optional argument is a set
\* with no element (None) or one element.
OrDefault(arg, default) ==
  IF arg = {} \/ arg = {0} THEN default ELSE CHOOSE v \in arg : TRUE

ProcessQueryReturnMut(gen) ==
  IF gen.raised THEN [value |-> NoResult, raised |-> TRUE]
  ELSE [value |-> gen.value, raised |-> FALSE]

\* the try/except of process_query around the call of generate_response
ProcessQueryReturn(gen) ==
  IF gen.raised THEN [value |-> ErrorResponse, raised |-> FALSE]
  ELSE [value |-> gen.value, raised |-> FALSE]

ProcessQueryFuseMut(doc_context, web_context, top_k) ==
  LET sorted == SortBySimilarityDesc(web_context \o doc_context)
  IN IF Len(sorted) > top_k THEN Take(sorted, top_k) ELSE sorted

\* combined_context = doc_context + web_context; sort; [:top_k]
ProcessQueryFuse(doc_context, web_context, top_k) ==
  LET sorted == SortBySimilarityDesc(doc_context \o web_context)
  IN IF Len(sorted) > top_k THEN Take(sorted, top_k) ELSE sorted

\* ---------------------------------------------------------------- WebCrawler
\* pages of the support site, and a link the crawler must not follow
Urls == {WEB_CRAWL_BASE_URL, "support/a"}
Hrefs == Urls \cup {"support/login"}

\* is_valid_url, on the absolute urls of this site: "/login" is skipped
IsValidUrl(url) == url \in Urls

\* extract_content: the page record, stamped with the time of the fetch; the
\* base page carries text and one FAQ pair, and nothing can be extracted
\* from "support/a"
ExtractContent(url, now) ==
  [url |-> url,
   full_text |-> IF url = "support/a" THEN <<"No content extracted">>
                 ELSE <<"a">>,
   faq_content |-> IF url = WEB_CRAWL_BASE_URL
                   THEN <<[question |-> <<"a">>, answer |-> <<"a", ".">>]>>
                   ELSE <<>>,
   timestamp |-> now]

\* extract_links: the hrefs of the page that are valid and not visited
ExtractLinks(hrefs, visited_urls) ==
  SelectIdx(hrefs, {k \in DOMAIN hrefs :
                      IsValidUrl(hrefs[k]) /\ hrefs[k] \notin visited_urls}, 1)

RECURSIVE Enqueue(_, _, _, _)
EnqueueMut(queue, links, k, visited_urls) ==
  queue \o SubSeq(links, k, Len(links))

\* for link in links: if link not in visited_urls and link not in queue
Enqueue(queue, links, k, visited_urls) ==
  IF k > Len(links) THEN queue
  ELSE IF links[k] \notin visited_urls /\ links[k] \notin Range(queue)
       THEN Enqueue(Append(queue, links[k]), links, k + 1, visited_urls)
       ELSE Enqueue(queue, links, k + 1, visited_urls)

\* one pass of the loop of crawl() over a non-empty queue; fetch is what
\* requests.get does: it raises, answers with another status, or answers 200
\* with a page that carries the hrefs fetch.hrefs
CrawlPass(wc, fetch, now) ==
  LET url == Head(wc.queue)
      popped == [wc EXCEPT !.queue = Tail(@)]
      marked == [popped EXCEPT !.visited_urls = @ \cup {url}]
      links == ExtractLinks(fetch.hrefs, marked.visited_urls)
  IN IF url \in wc.visited_urls THEN [requested |-> FALSE, wc |-> popped]
     ELSE IF fetch.status # 200 THEN [requested |-> TRUE, wc |-> marked]
     ELSE [requested |-> TRUE,
           wc |-> [marked EXCEPT
                     !.content_data = Append(@, ExtractContent(url, now)),
                     !.queue = Enqueue(@, links, 1, marked.visited_urls)]]

\* process_web_content of web_crawler.py: one "web" document per page with
\* extracted text, one "web_faq" document per FAQ pair
WebMeta(url, source_type, timestamp) ==
  [source |-> <<url>>, page |-> "", chunk |-> "", source_type |-> source_type,
   collection |-> "unset", timestamp |-> timestamp]

RECURSIVE ProcessWebPages(_, _)
ProcessWebPages(web_data, p) ==
  IF p > Len(web_data) THEN <<>>
  ELSE LET page == web_data[p]
           body == IF page.full_text # <<>>
                      /\ page.full_text # <<"No content extracted">>
                   THEN <<[content |-> page.full_text,
                           metadata |-> WebMeta(page.url, "web", page.timestamp)]>>
                   ELSE <<>>
           faqs == [k \in DOMAIN page.faq_content |->
                      [content |-> <<"Q", ":", " ">> \o page.faq_content[k].question
                                     \o <<"\n", "A", ":", " ">>
                                     \o page.faq_content[k].answer,
                       metadata |-> WebMeta(page.url, "web_faq", page.timestamp)]]
       IN body \o faqs \o ProcessWebPages(web_data, p + 1)

\* ------------------------------------------------------ RAGService: ingestion
\* reset_collection in one piece: the failure of delete_collection is only
\* logged, the cached handle goes after a successful delete, and the failure
\* of create_collection is logged and raised
ResetCollection(st, name, deleteDown, createDown) ==
  LET d == ClientDelete(st, name, deleteDown)
      dropped == IF d.raised THEN d.st ELSE Uncache(d.st, name)
      c == ClientCreate(dropped, name, createDown)
  IN IF c.raised THEN [raised |-> TRUE, st |-> c.st]
     ELSE [raised |-> FALSE, st |-> Cache(c.st, name, c.handle)]

\* the chunks of split_documents as add_documents reads them: the id is an
\* f-string, so the number under "chunk" enters it as its decimal text
IngestChunk(chunk) ==
  [content |-> chunk.content,
   metadata |-> [f \in DOMAIN chunk.metadata |->
                   IF f = "chunk" THEN DigitTokens[chunk.metadata.chunk + 1]
                   ELSE chunk.metadata[f]]]

IngestChunks(documents, chunk_size, widths) ==
  LET chunks == SplitDocuments(documents, 1, chunk_size, widths)
  IN [k \in DOMAIN chunks |-> IngestChunk(chunks[k])]

IngestReturn(didRaise, value, split_docs, st) ==
  [raised |-> didRaise, value |-> value, split_docs |-> split_docs, st |-> st]

\* the end of both ingestion paths: a is what add_documents did with
\* split_docs; its exception is raised again, otherwise len(split_docs) is
\* returned
IngestAdded(a, split_docs) ==
  IF a.raised THEN IngestReturn(TRUE, 0, <<>>, a.st)
  ELSE IngestReturn(FALSE, Len(split_docs), split_docs, a.st)

\* process_documents: reset "documents", load, split, add, return
\* len(split_docs); every exception is logged and raised again
ProcessDocuments(st, documents, widths, uuids, faults) ==
  LET r == ResetCollection(st, "documents", faults.delete, faults.create)
      split_docs == IngestChunks(documents, CHUNK_SIZE, widths)
  IN IF r.raised \/ faults.load THEN IngestReturn(TRUE, 0, <<>>, r.st)
     ELSE IngestAdded(AddDocuments(r.st, split_docs, "documents", uuids, faults.add),
                      split_docs)

\* the upload task process_document: load_document, split, add to the
\* default collection; an exception ends in the status "error"
ProcessUpload(st, documents, widths, uuids, faults) ==
  LET split_docs == IngestChunks(documents, CHUNK_SIZE, widths)
  IN IF faults.load THEN IngestReturn(TRUE, 0, <<>>, st)
     ELSE IngestAdded(AddDocuments(st, split_docs, "documents", uuids, faults.add),
                      split_docs)

\* ------------------------------------------------------------------ inputs
OptArgs(S) == {{}} \cup {{v} : v \in S}

PipelineAnswers == { <<"x">>, <<"x", "Document ", "1">> }

LLMOutcomes == {LLMFail} \cup {LLMAnswer(t) : t \in PipelineAnswers}

MentionNums == {1, 2, 10}

Phrases ==
  {<<"x">>, <<"Web ", "Document ", "1">>}
     \cup {<<"Document ">> \o Digits(k) : k \in MentionNums}

\* answers: up to MaxPhrases different phrases one after the other
AnswerTexts == {Concat(ps) : ps \in SeqsNoRep(Phrases, MaxPhrases)}

CiteMetas ==
  { Meta(<<"plan", ".pdf">>, "p1", ""), Meta(<<"plan">>, "", ""),
    Meta(<<"url1">>, "", "web") }

\* lengths of the context lists: short ones and the longest
CtxLens == {n \in 1..MaxCtx : n <= 3 \/ n = MaxCtx}

CiteKinds == [metadata : CiteMetas, similarity : {6, 8}]

\* a context list of n passages whose kinds repeat with period 2
CiteContext(n, palette) ==
  [i \in 1..n |-> [content |-> <<"c", i>>,
                   metadata |-> palette[((i - 1) % 2) + 1].metadata,
                   similarity |-> palette[((i - 1) % 2) + 1].similarity]]

\* metadata as split_documents leaves it: the loader's fields and "chunk"
DocMeta(source, page, chunk) ==
  [source |-> source, page |-> page, chunk |-> chunk, source_type |-> "",
   collection |-> "unset"]

Doc(content, metadata) == [content |-> content, metadata |-> metadata]

\* documents handed to add_documents: one without content, two chunks that
\* agree on source, page and chunk, and one of a file without pages
DocKinds ==
  { Doc(<<>>, DocMeta(<<"plan", ".pdf">>, "p1", "0")),
    Doc(<<"c", 1>>, DocMeta(<<"plan", ".pdf">>, "p1", "0")),
    Doc(<<"c", 2>>, DocMeta(<<"faq", ".docx">>, "", "")) }

Uuids == {"u1", "u2"}

AddFaults == {"none", "collection", "index"}

\* what load_all_documents and split_documents hand to a reindex
ReindexDocs ==
  {d \in SeqsNoRep({k \in DocKinds : k.content # <<>>}, MaxDocs) :
      d # <<>> /\ d[1].content = <<"c", 1>>}

\* entries stored by earlier add_documents calls
StoredBefore ==
  {<<>>} \cup
  {<<Stored(DocId(k.metadata, 0, "u1"), k.content, k.metadata)>> :
      k \in {k \in DocKinds : k.content = <<"c", 2>>}}

\* ------------------------------------------------------------------ actions
\* no operation in flight
\* WebCrawler.__init__
WebCrawlerInit ==
  [visited_urls |-> {}, queue |-> <<WEB_CRAWL_BASE_URL>>, content_data |-> <<>>]

\* a service just constructed: nothing crawled, nothing saved
CrawlerIdle ==
  /\ web_crawler = WebCrawlerInit
  /\ output_file = <<>>
  /\ requests = <<>>
  /\ calls = 0

Idle ==
  /\ pc = "idle"
  /\ op = "none"
  /\ args = NoArgs
  /\ cands = <<>>
  /\ failed = <<>>
  /\ parts = <<>>
  /\ context = <<>>
  /\ llm = LLMNotCalled
  /\ llmCalls = 0
  /\ genRaised = FALSE
  /\ result = NoResult
  /\ raised = FALSE

\* the service after construction (the constructor opens "documents"), over
\* a persisted index; a web collection nothing was ingested into is missing
Init ==
  /\ entries \in {[n \in Names |-> IF n = "documents" THEN d ELSE w] :
                    d \in SeqsNoRep(DocPool, MaxEntries),
                    w \in SeqsNoRep(WebPool, MaxEntries)}
  /\ exists = {n \in Names : n = "documents" \/ entries[n] # <<>>}
  /\ collections = {"documents"}
  /\ created = [n \in Names |-> IF n \in exists THEN 1 ELSE 0]
  /\ handles = [n \in Names |-> IF n = "documents" THEN 1 ELSE 0]
  /\ task = NoTask
  /\ Idle
  /\ CrawlerIdle

SetStore(st) ==
  /\ exists' = st.exists
  /\ entries' = st.entries
  /\ collections' = st.collections
  /\ created' = st.created
  /\ handles' = st.handles

\* a caller invokes VectorStoreService.query
CallQuery ==
  \E name \in Names, top_k \in TopKs, threshold \in Thresholds, fault \in Faults :
    LET q == VSQuery(Store(exists, entries, collections, created, handles), name, top_k, threshold, fault)
    IN /\ pc = "idle"
       /\ pc' = "returned"
       /\ op' = "query"
       /\ args' = [name |-> name, top_k |-> top_k, threshold |-> threshold,
                   fault |-> fault]
       /\ SetStore(q.st)
       /\ cands' = <<q.cands>>
       /\ failed' = <<q.failed>>
       /\ parts' = <<q.result>>
       /\ context' = q.result
       /\ raised' = q.raised
       /\ UNCHANGED <<crawlVars, task, llm, llmCalls, genRaised, result>>

\* query() over an index that reports its candidates in some order: the
\* part of query() from collection.query to the return
CallQueryReported ==
  \E name \in Names, top_k \in TopKs, threshold \in Thresholds :
    \E reported \in Reports(entries[name], top_k) :
      /\ pc = "idle"
      /\ name \in collections
      /\ pc' = "returned"
      /\ op' = "query_reported"
      /\ args' = [name |-> name, top_k |-> top_k, threshold |-> threshold,
                  fault |-> "none"]
      /\ cands' = <<reported>>
      /\ failed' = <<FALSE>>
      /\ parts' = <<RelevantDocs(reported, threshold)>>
      /\ context' = RelevantDocs(reported, threshold)
      /\ raised' = FALSE
      /\ UNCHANGED <<crawlVars, exists, entries, collections, created, handles,
                     task, llm, llmCalls, genRaised, result>>

\* a caller invokes RetrievalService.retrieve_multi_collection
CallRetrieveMulti ==
  \E colls \in SeqsUpTo(Names, MaxColls), top_k \in TopKs,
     threshold \in MultiThresholds :
    \E faultOf \in [Names -> MultiFaults] :
      LET faults == [i \in DOMAIN colls |-> faultOf[colls[i]]]
          m == RetrieveMultiCollection(Store(exists, entries, collections, created, handles),
                                       colls, faults, top_k, threshold)
      IN /\ pc = "idle"
         /\ pc' = "returned"
         /\ op' = "retrieve_multi"
         /\ args' = [collections |-> colls, top_k |-> top_k,
                     threshold |-> threshold]
         /\ SetStore(m.st)
         /\ cands' = m.cands
         /\ failed' = m.failed
         /\ parts' = m.parts
         /\ context' = m.result
         /\ raised' = m.raised
         /\ UNCHANGED <<crawlVars, task, llm, llmCalls, genRaised, result>>

\* process_query up to its first retrieval: the defaults are applied
ProcessQueryBegin(include_web, top_k, threshold) ==
  /\ pc = "idle"
  /\ pc' = "retrieve_docs"
  /\ op' = "process_query"
  /\ args' = [include_web |-> include_web,
              top_k_arg |-> top_k, threshold_arg |-> threshold,
              top_k |-> OrDefault(top_k, RETRIEVAL_TOP_K),
              threshold |-> OrDefault(threshold, RETRIEVAL_THRESHOLD)]
  /\ UNCHANGED <<crawlVars, exists, entries, collections, created, handles, task, cands,
                 failed, parts, context,
                 llm, llmCalls, genRaised, result, raised>>

\* a caller invokes process_query with any arguments
ProcessQueryStart ==
  \E include_web \in BOOLEAN, top_k \in OptArgs(TopKs), threshold \in OptArgs(Thresholds) :
    ProcessQueryBegin(include_web, top_k, threshold)

\* the chat route: process_query(query=..., include_web=...)
ChatMessage ==
  \E include_web \in BOOLEAN : ProcessQueryBegin(include_web, {}, {})

\* process_query: retrieve from "documents"; an exception out of retrieve
\* would land in the except of process_query
ProcessQueryRetrieveDocs ==
  \E fault \in Faults :
    LET r == Retrieve(Store(exists, entries, collections, created, handles), "documents",
                      args.top_k, args.threshold, fault)
        ret == ProcessQueryReturn([raised |-> r.raised, value |-> result])
    IN /\ pc = "retrieve_docs"
       /\ pc' = IF r.raised THEN "returned"
                ELSE IF args.include_web THEN "retrieve_web" ELSE "generate"
       /\ SetStore(r.st)
       /\ cands' = <<r.cands>>
       /\ failed' = <<r.failed>>
       /\ parts' = <<r.result>>
       /\ context' = IF args.include_web THEN <<>> ELSE r.result
       /\ result' = ret.value
       /\ raised' = ret.raised
       /\ UNCHANGED <<crawlVars, task, op, args, llm, llmCalls, genRaised>>

\* process_query: retrieve from the web collection, then fuse
ProcessQueryRetrieveWeb ==
  \E fault \in Faults :
    LET r == Retrieve(Store(exists, entries, collections, created, handles), WEB_CRAWL_COLLECTION,
                      args.top_k, args.threshold, fault)
        ret == ProcessQueryReturn([raised |-> r.raised, value |-> result])
    IN /\ pc = "retrieve_web"
       /\ pc' = IF r.raised THEN "returned" ELSE "generate"
       /\ SetStore(r.st)
       /\ cands' = Append(cands, r.cands)
       /\ failed' = Append(failed, r.failed)
       /\ parts' = Append(parts, r.result)
       /\ context' = ProcessQueryFuse(parts[1], r.result, args.top_k)
       /\ result' = ret.value
       /\ raised' = ret.raised
       /\ UNCHANGED <<crawlVars, task, op, args, llm, llmCalls, genRaised>>

\* process_query: generate_response and the return / except of process_query
ProcessQueryGenerate ==
  \E outcome \in LLMOutcomes :
    LET gen == GenerateResponse(context, outcome)
        ret == ProcessQueryReturn(gen)
    IN /\ pc = "generate"
       /\ pc' = "returned"
       /\ llm' = IF gen.calls > 0 THEN outcome ELSE LLMNotCalled
       /\ llmCalls' = llmCalls + gen.calls
       /\ genRaised' = gen.raised
       /\ result' = ret.value
       /\ raised' = ret.raised
       /\ UNCHANGED <<crawlVars, exists, entries, collections, created, handles, task, op,
                      args, cands, failed,
                      parts, context>>

\* the kinds of passage _format_context tells apart
FormatMetas == CiteMetas \cup {Meta(<<"faq_url">>, "", "web_faq")}

\* a context list of n passages whose metadata repeats with period 2
FormatInput(n, palette) ==
  [i \in 1..n |-> [content |-> <<"c">> \o Digits(i),
                   metadata |-> palette[((i - 1) % 2) + 1],
                   similarity |-> 8]]

\* generate_response formats a context list for the prompt
CallFormatContext ==
  \E n \in CtxLens, palette \in [1..2 -> FormatMetas] :
    /\ pc = "idle"
    /\ pc' = "returned"
    /\ op' = "format_context"
    /\ args' = NoArgs
    /\ context' = FormatInput(n, palette)
    /\ result' = FormatContext(FormatInput(n, palette))
    /\ UNCHANGED <<crawlVars, exists, entries, collections, created, handles, task, cands,
                   failed, parts, llm,
                   llmCalls, genRaised, raised>>

\* a caller invokes LLMService._process_response
CallProcessResponse ==
  \E n \in CtxLens, palette \in [1..2 -> CiteKinds], text \in AnswerTexts :
    /\ pc = "idle"
    /\ pc' = "returned"
    /\ op' = "process_response"
    /\ args' = [text |-> text]
    /\ context' = CiteContext(n, palette)
    /\ result' = ProcessResponse(text, CiteContext(n, palette))
    /\ UNCHANGED <<crawlVars, exists, entries, collections, created, handles, task, cands,
                   failed, parts, llm,
                   llmCalls, genRaised, raised>>

\* the caller takes the returned value; the next call starts afresh
Return ==
  /\ pc = "returned"
  /\ pc' = "idle"
  /\ op' = "none"
  /\ args' = NoArgs
  /\ cands' = <<>>
  /\ failed' = <<>>
  /\ parts' = <<>>
  /\ context' = <<>>
  /\ llm' = LLMNotCalled
  /\ llmCalls' = 0
  /\ genRaised' = FALSE
  /\ result' = NoResult
  /\ raised' = FALSE
  /\ UNCHANGED <<crawlVars, exists, entries, collections, created, handles, task>>

\* ids a caller hands to VectorDatabase.add_documents: plain ones and one
\* that reads like another id with a numeric suffix
IdPool == { <<"a">>, <<"b">>, <<"a", "_", "1">> }

\* a caller invokes VectorDatabase.add_documents
CallVectorDbAdd ==
  \E ids \in SeqsUpTo(IdPool, MaxIds) :
    /\ pc = "idle"
    /\ pc' = "returned"
    /\ op' = "vector_db_add"
    /\ args' = [ids |-> ids]
    /\ result' = [ids |-> UniqueIds(ids)]
    /\ UNCHANGED <<crawlVars, exists, entries, collections, created, handles, task, cands,
                   failed, parts, context, llm, llmCalls, genRaised, raised>>

\* characters of the texts handed to the splitter
Alphabet == {"a", ".", " ", "\n"}

Texts == SeqsUpTo(Alphabet, MaxText)

\* TextSplitter(chunk_size, chunk_overlap): `x or settings.X`; the library
\* refuses an overlap larger than the chunk size at construction
SplitterConfigs ==
  {c \in {[chunk_size |-> OrDefault(cs, CHUNK_SIZE),
           chunk_overlap |-> OrDefault(co, CHUNK_OVERLAP)] :
             cs \in OptArgs(1..MaxChunk), co \in OptArgs({1})} :
     c.chunk_overlap <= c.chunk_size}

\* what the library does with one text: 0 for raising, else the width
LibraryOutcomes(chunk_size) == 0..Min(chunk_size, MaxText)

\* a caller invokes TextSplitter.split_text
CallSplitText ==
  \E text \in Texts, config \in SplitterConfigs :
    \E width \in LibraryOutcomes(config.chunk_size) :
      /\ pc = "idle"
      /\ pc' = "returned"
      /\ op' = "split_text"
      /\ args' = [text |-> text, chunk_size |-> config.chunk_size,
                  chunk_overlap |-> config.chunk_overlap, width |-> width]
      /\ result' = [chunks |-> SplitText(text, config.chunk_size, width)]
      /\ UNCHANGED <<crawlVars, exists, entries, collections, created, handles, task, cands,
                     failed, parts, context, llm, llmCalls, genRaised, raised>>

\* documents as the loaders hand them to split_documents
SplitDocKinds ==
  { [content |-> <<>>, metadata |-> [source |-> "s1", page |-> "p1"]],
    [content |-> <<"a", "a", "a">>, metadata |-> [source |-> "s1", page |-> "p2"]],
    [content |-> <<"a", "\n", "\n", "a">>, metadata |-> [source |-> "s2", page |-> ""]] }

\* the characters of a sentence without a blank or a full stop, all different
\* so that what two pieces share can be read off them
SentenceChars ==
  << "a01", "a02", "a03", "a04", "a05", "a06", "a07", "a08", "a09", "a10",
     "a11", "a12", "a13", "a14", "a15", "a16", "a17", "a18", "a19", "a20",
     "a21", "a22", "a23", "a24", "a25", "a26", "a27", "a28", "a29", "a30",
     "a31", "a32", "a33", "a34", "a35", "a36", "a37", "a38", "a39", "a40",
     "a41", "a42", "a43", "a44", "a45", "a46", "a47", "a48" >>

\* chunk sizes without overlap, with an overlap of one and of two characters
SliceSizes == {5, 10, 20}

\* a caller hands _simple_split one long sentence
CallSimpleSplit ==
  \E n \in 1..MaxSentence, chunk_size \in SliceSizes :
    /\ pc = "idle"
    /\ pc' = "returned"
    /\ op' = "simple_split"
    /\ args' = [text |-> SubSeq(SentenceChars, 1, n), chunk_size |-> chunk_size]
    /\ result' = [chunks |-> SimpleSplit(SubSeq(SentenceChars, 1, n), chunk_size)]
    /\ UNCHANGED <<crawlVars, exists, entries, collections, created, handles,
                   task, cands, failed, parts, context, llm, llmCalls,
                   genRaised, raised>>

\* a caller invokes TextSplitter.split_documents
CallSplitDocuments ==
  \E documents \in SeqsUpTo(SplitDocKinds, MaxDocs), chunk_size \in 1..MaxChunk :
    \E widths \in [1..MaxDocs -> LibraryOutcomes(chunk_size)] :
      /\ pc = "idle"
      /\ pc' = "returned"
      /\ op' = "split_documents"
      /\ args' = [documents |-> documents, chunk_size |-> chunk_size,
                  widths |-> widths]
      /\ result' = [chunks |-> SplitDocuments(documents, 1, chunk_size, widths)]
      /\ UNCHANGED <<crawlVars, exists, entries, collections, created, handles, task, cands,
                     failed, parts, context, llm, llmCalls, genRaised, raised>>

callerVars == <<pc, op, args, cands, failed, parts, context, llm, llmCalls,
                genRaised, result, raised>>

\* a caller invokes VectorStoreService.get_or_create_collection
CallGetOrCreate ==
  \E name \in Names, clientDown \in BOOLEAN :
    LET g == GetOrCreateCollection(Store(exists, entries, collections, created, handles),
                                   name, clientDown)
    IN /\ pc = "idle"
       /\ pc' = "returned"
       /\ op' = "get_or_create"
       /\ args' = [name |-> name, cached |-> name \in collections]
       /\ SetStore(g.st)
       /\ result' = [handle |-> g.handle]
       /\ raised' = g.raised
       /\ UNCHANGED <<crawlVars, task, cands, failed, parts, context, llm, llmCalls, genRaised>>

\* a caller invokes VectorStoreService.add_documents
CallAddDocuments ==
  \E documents \in SeqsUpTo(DocKinds, MaxDocs), uuids \in [1..MaxDocs -> Uuids],
     name \in Names, fault \in AddFaults :
    LET a == AddDocuments(Store(exists, entries, collections, created, handles),
                          documents, name, uuids, fault)
    IN /\ pc = "idle"
       /\ Len(entries["documents"]) + Len(entries[WEB_CRAWL_COLLECTION])
            + Len(documents) <= MaxStored
       /\ pc' = "returned"
       /\ op' = "add_documents"
       /\ args' = [documents |-> documents, name |-> name, fault |-> fault,
                   stored |-> entries[name]]
       /\ SetStore(a.st)
       /\ result' = [called |-> a.called, ids |-> a.ids, texts |-> a.texts,
                     metadatas |-> a.metadatas]
       /\ raised' = a.raised
       /\ UNCHANGED <<crawlVars, task, cands, failed, parts, context, llm, llmCalls, genRaised>>

\* a background task starts: reset_collection(name) alone, or
\* process_documents, which resets "documents" and then adds what it loaded
TaskStart ==
  \E kind \in {"reset", "reindex"}, name \in Names, docs \in ReindexDocs :
    /\ task = NoTask
    /\ kind = "reindex" => name = "documents"
    /\ kind = "reset" => docs = CHOOSE d \in ReindexDocs : TRUE
    /\ created[name] < MaxCreated
    /\ task' = [kind |-> kind, name |-> name, pc |-> "delete", handle |-> 0,
                faulted |-> FALSE, raised |-> FALSE,
                existed |-> name \in exists,
                before |-> entries[name], docs |-> docs]
    /\ UNCHANGED <<crawlVars, exists, entries, collections, created, handles, callerVars>>

\* reset_collection: client.delete_collection; a failure is only logged
TaskDelete ==
  \E clientDown \in BOOLEAN :
    LET d == ClientDelete(Store(exists, entries, collections, created, handles),
                          task.name, clientDown)
    IN /\ task # NoTask
       /\ task.pc = "delete"
       /\ SetStore(d.st)
       /\ task' = [task EXCEPT !.pc = IF d.raised THEN "create" ELSE "uncache",
                               !.faulted = @ \/ clientDown]
       /\ UNCHANGED <<crawlVars, callerVars>>

\* reset_collection: the cached handle is dropped after a successful delete
TaskUncache ==
  /\ task # NoTask
  /\ task.pc = "uncache"
  /\ SetStore(Uncache(Store(exists, entries, collections, created, handles), task.name))
  /\ task' = [task EXCEPT !.pc = "create"]
  /\ UNCHANGED <<crawlVars, callerVars>>

\* reset_collection: client.create_collection; a failure is logged and raised
TaskCreate ==
  \E clientDown \in BOOLEAN :
    LET c == ClientCreate(Store(exists, entries, collections, created, handles),
                          task.name, clientDown)
    IN /\ task # NoTask
       /\ task.pc = "create"
       /\ SetStore(c.st)
       /\ task' = [task EXCEPT !.pc = IF c.raised THEN "done" ELSE "cache",
                               !.handle = c.handle,
                               !.raised = c.raised,
                               !.faulted = @ \/ clientDown]
       /\ UNCHANGED <<crawlVars, callerVars>>

\* reset_collection: the new handle is cached and the reset returns
TaskCache ==
  /\ task # NoTask
  /\ task.pc = "cache"
  /\ SetStore(Cache(Store(exists, entries, collections, created, handles),
                    task.name, task.handle))
  /\ task' = [task EXCEPT !.pc = IF task.kind = "reindex" THEN "add" ELSE "done"]
  /\ UNCHANGED <<crawlVars, callerVars>>

\* process_documents: add_documents of the loaded and split documents
TaskAdd ==
  \E uuids \in [1..MaxDocs -> {"u2"}], fault \in {"none", "index"} :
    LET a == AddDocuments(Store(exists, entries, collections, created, handles),
                          task.docs, task.name, uuids, fault)
    IN /\ task # NoTask
       /\ task.pc = "add"
       /\ SetStore(a.st)
       /\ task' = [task EXCEPT !.pc = "done", !.raised = a.raised,
                               !.faulted = @ \/ fault # "none"]
       /\ UNCHANGED <<crawlVars, callerVars>>

\* the background task is over
TaskEnd ==
  /\ task # NoTask
  /\ task.pc = "done"
  /\ task' = NoTask
  /\ UNCHANGED <<crawlVars, exists, entries, collections, created, handles, callerVars>>

\* what load_all_documents / load_document return: the text of a PDF page,
\* of a DOCX file, short enough to be cut in two, and of a text file that
\* holds one blank (a text file is read as it is)
LoadedKinds ==
  << Doc(<<"a">>, DocMeta(<<"plan", ".pdf">>, "p1", "")),
     Doc(<<"a", "a">>, DocMeta(<<"faq", ".docx">>, "", "")),
     Doc(<<" ">>, DocMeta(<<"notes", ".txt">>, "", "")) >>

\* the corpus: some of these parts, in the order of the directory listing
Loaded ==
  {SelectIdx(LoadedKinds, S, 1) :
     S \in {T \in SUBSET DOMAIN LoadedKinds : Cardinality(T) <= MaxDocs}}

\* the documents process_web_content can make of the pages of the site, and
\* the chunks one ingestion call can hand to add_documents
MaxWebDocs == 2
MaxDraws == 20

\* uuid4 fragments drawn in one add_documents: all different in practice,
\* here alternating, or equal from the second on
UuidDraws ==
  {[i \in 1..MaxDraws |-> IF i % m = 1 THEN "u1" ELSE "u2"] : m \in {2, MaxDraws + 1}}

\* what fails during one ingestion call: the client at delete, at create or
\* at both, the loader, or add_documents
IngestFaults ==
  {f \in [delete : BOOLEAN, create : BOOLEAN, load : BOOLEAN, add : AddFaults] :
     /\ f.load => (~f.delete /\ ~f.create /\ f.add = "none")
     /\ f.add # "none" => (~f.delete /\ ~f.create)}

\* what the library makes of one document: it raises (0), so that
\* _simple_split returns these short texts whole, or it cuts after every
\* character
IngestWidths == {0, 1}

\* a caller invokes VectorStoreService.reset_collection
CallResetCollection ==
  \E name \in Names, deleteDown \in BOOLEAN, createDown \in BOOLEAN :
    LET r == ResetCollection(Store(exists, entries, collections, created, handles),
                             name, deleteDown, createDown)
    IN /\ pc = "idle"
       /\ calls < MaxCalls
       /\ calls' = calls + 1
       /\ pc' = "returned"
       /\ op' = "reset_collection"
       /\ args' = [name |-> name, create |-> createDown]
       /\ SetStore(r.st)
       /\ raised' = r.raised
       /\ UNCHANGED <<web_crawler, output_file, requests, task, cands, failed,
                      parts, context, llm, llmCalls, genRaised, result>>

\* a caller invokes RAGService.process_documents
CallProcessDocuments ==
  \E documents \in Loaded, widths \in [1..MaxDocs -> IngestWidths],
     uuids \in UuidDraws, faults \in IngestFaults :
    /\ pc = "idle"
    /\ calls < MaxCalls
    /\ \A d \in 1..MaxDocs : d > Len(documents) => widths[d] = 0
    /\ \E r \in {ProcessDocuments(Store(exists, entries, collections, created, handles),
                                 documents, widths, uuids, faults)} :
           /\ calls' = calls + 1
           /\ pc' = "returned"
           /\ op' = "process_documents"
           /\ args' = [create |-> faults.create, before |-> entries["documents"]]
           /\ SetStore(r.st)
           /\ context' = r.split_docs
           /\ result' = [value |-> r.value]
           /\ raised' = r.raised
           /\ UNCHANGED <<web_crawler, output_file, requests, task, cands, failed,
                          parts, llm, llmCalls, genRaised>>

\* an uploaded document is processed by the task process_document
CallProcessUpload ==
  \E documents \in Loaded, widths \in [1..MaxDocs -> IngestWidths],
     uuids \in UuidDraws, faults \in IngestFaults :
    /\ pc = "idle"
    /\ ~faults.delete /\ ~faults.create
    /\ Len(documents) <= 1
    /\ calls < MaxCalls
    /\ \A d \in 1..MaxDocs : d > Len(documents) => widths[d] = 0
    /\ \E r \in {ProcessUpload(Store(exists, entries, collections, created, handles),
                              documents, widths, uuids, faults)} :
           /\ calls' = calls + 1
           /\ pc' = "returned"
           /\ op' = "process_upload"
           /\ args' = [before |-> entries["documents"]]
           /\ SetStore(r.st)
           /\ context' = r.split_docs
           /\ result' = [status |-> IF r.raised THEN "error" ELSE "completed",
                         chunks |-> r.value]
           /\ raised' = FALSE
           /\ UNCHANGED <<web_crawler, output_file, requests, task, cands, failed,
                          parts, llm, llmCalls, genRaised>>

\* what requests.get does with one url: it raises (status 0), answers with
\* an error status, or answers 200 with a page carrying some hrefs
Fetches ==
  {[status |-> s, hrefs |-> <<>>] : s \in {0, 404}}
    \cup {[status |-> 200, hrefs |-> h] : h \in SeqsUpTo(Hrefs, MaxLinks)}

\* _save_crawled_data: it succeeds, fails before the file is opened, or
\* fails after open(..., "w") has emptied the file
SaveOutcomes == {"saved", "not_opened", "emptied"}

\* a caller invokes WebCrawler.crawl on the crawler of the service
CallCrawl ==
  /\ pc = "idle"
  /\ calls < MaxCalls
  /\ calls' = calls + 1
  /\ pc' = "crawl"
  /\ op' = "crawl"
  /\ args' = [force_crawl |-> TRUE, crawled |-> TRUE, create |-> FALSE]
  /\ UNCHANGED <<web_crawler, output_file, requests, exists, entries,
                 collections, created, handles, task, cands, failed, parts,
                 context, llm, llmCalls, genRaised, result, raised>>

\* crawl(): one pass of `while self.queue`
CrawlIteration ==
  \E fetch \in Fetches :
    LET p == CrawlPass(web_crawler, fetch, calls)
    IN /\ pc = "crawl"
       /\ web_crawler.queue # <<>>
       /\ web_crawler' = p.wc
       /\ requests' = IF p.requested
                      THEN Append(requests, [url |-> Head(web_crawler.queue),
                                             call |-> calls])
                      ELSE requests
       /\ UNCHANGED <<output_file, calls, exists, entries, collections, created,
                      handles, task, callerVars>>

\* crawl(): the queue is empty; _save_crawled_data and the return of
\* content_data, to the caller or to process_web_content
CrawlSave ==
  \E save \in SaveOutcomes :
    /\ pc = "crawl"
    /\ web_crawler.queue = <<>>
    /\ output_file' = IF save = "saved" THEN web_crawler.content_data
                      ELSE IF save = "emptied" THEN <<>> ELSE output_file
    /\ pc' = IF op = "process_web_content" /\ save = "saved" THEN "index"
             ELSE "returned"
    /\ context' = IF save = "saved" THEN web_crawler.content_data ELSE <<>>
    /\ result' = [value |-> 0]
    /\ raised' = (op = "crawl" /\ save # "saved")
    /\ UNCHANGED <<web_crawler, requests, calls, exists, entries, collections,
                   created, handles, task, op, args, cands, failed, parts, llm,
                   llmCalls, genRaised>>

\* process_web_content: the reset of the web collection and the choice
\* between the saved pages and a crawl; an exception of the reset lands in
\* the except, which returns 0
CallProcessWebContent ==
  \E force_crawl \in BOOLEAN, deleteDown \in BOOLEAN, createDown \in BOOLEAN,
     readable \in BOOLEAN :
    LET r == ResetCollection(Store(exists, entries, collections, created, handles),
                             WEB_CRAWL_COLLECTION, deleteDown, createDown)
        existing_data == IF readable THEN output_file ELSE <<>>
        crawl == existing_data = <<>> \/ force_crawl
    IN /\ pc = "idle"
       /\ calls < MaxCalls
       /\ calls' = calls + 1
       /\ pc' = IF r.raised THEN "returned" ELSE IF crawl THEN "crawl" ELSE "index"
       /\ op' = "process_web_content"
       /\ args' = [force_crawl |-> force_crawl, crawled |-> ~r.raised /\ crawl,
                   create |-> createDown]
       /\ SetStore(r.st)
       /\ context' = IF r.raised \/ crawl THEN <<>> ELSE existing_data
       /\ result' = [value |-> 0]
       /\ raised' = FALSE
       /\ UNCHANGED <<web_crawler, output_file, requests, task, cands, failed,
                      parts, llm, llmCalls, genRaised>>

\* process_web_content: the pages become documents, are split and added to
\* the web collection; the chunk count is returned, 0 without pages and 0
\* after an exception
ProcessWebIndex ==
  \E widths \in [1..MaxWebDocs -> IngestWidths], uuids \in UuidDraws,
     fault \in AddFaults :
    LET processed_docs == ProcessWebPages(context, 1)
        split_docs == IngestChunks(processed_docs, CHUNK_SIZE, widths)
        a == AddDocuments(Store(exists, entries, collections, created, handles),
                          split_docs, WEB_CRAWL_COLLECTION, uuids, fault)
    IN /\ pc = "index"
       /\ \A d \in 1..MaxWebDocs : d > Len(processed_docs) => widths[d] = 0
       /\ pc' = "returned"
       /\ IF context = <<>>
          THEN /\ result' = [value |-> 0]
               /\ UNCHANGED <<exists, entries, collections, created, handles>>
          ELSE /\ result' = [value |-> IF a.raised THEN 0 ELSE Len(split_docs)]
               /\ SetStore(a.st)
       /\ raised' = FALSE
       /\ UNCHANGED <<crawlVars, task, op, args, cands, failed, parts, context,
                      llm, llmCalls, genRaised>>

Next ==
  \/ CallQuery
  \/ CallRetrieveMulti
  \/ ProcessQueryStart
  \/ ProcessQueryRetrieveDocs
  \/ ProcessQueryRetrieveWeb
  \/ ProcessQueryGenerate
  \/ Return

Spec == Init /\ [][Next]_vars

\* query() alone, whatever the order of the index's report
NextOrder ==
  \/ CallQueryReported
  \/ Return

SpecOrder == Init /\ [][NextOrder]_vars

NextCite ==
  \/ CallProcessResponse
  \/ CallFormatContext
  \/ Return

\* the synthesizer alone: no index is involved
InitCite ==
  /\ entries = [n \in Names |-> <<>>]
  /\ exists = {"documents"}
  /\ collections = {"documents"}
  /\ created = [n \in Names |-> IF n = "documents" THEN 1 ELSE 0]
  /\ handles = created
  /\ task = NoTask
  /\ Idle
  /\ CrawlerIdle

SpecCite == InitCite /\ [][NextCite]_vars

\* the fallback splitter alone, on one sentence
NextSlice ==
  \/ CallSimpleSplit
  \/ Return

SpecSlice == InitCite /\ [][NextSlice]_vars

\* the vector store under a chat query and a background reset or reindex at
\* the same time
NextStore ==
  \/ ChatMessage
  \/ ProcessQueryRetrieveDocs
  \/ ProcessQueryRetrieveWeb
  \/ ProcessQueryGenerate
  \/ CallGetOrCreate
  \/ Return
  \/ TaskStart
  \/ TaskDelete
  \/ TaskUncache
  \/ TaskCreate
  \/ TaskCache
  \/ TaskAdd
  \/ TaskEnd

\* VectorDatabase.add_documents alone
NextIds ==
  \/ CallVectorDbAdd
  \/ Return

SpecIds == InitCite /\ [][NextIds]_vars

\* the text splitter alone
NextSplit ==
  \/ CallSplitText
  \/ CallSplitDocuments
  \/ Return

SpecSplit == InitCite /\ [][NextSplit]_vars

InitStore ==
  /\ entries \in [Names -> StoredBefore]
  /\ exists = {n \in Names : n = "documents" \/ entries[n] # <<>>}
  /\ collections = {"documents"}
  /\ created = [n \in Names |-> IF n \in exists THEN 1 ELSE 0]
  /\ handles = [n \in Names |-> IF n = "documents" THEN 1 ELSE 0]
  /\ task = NoTask
  /\ Idle
  /\ CrawlerIdle

SpecStore == InitStore /\ [][NextStore]_vars

\* add_documents alone, on a store that earlier calls have filled
NextAdd ==
  \/ CallAddDocuments
  \/ Return

SpecAdd == InitStore /\ [][NextAdd]_vars

\* ingestion on the request thread: resets, reindexing, uploads
NextIngest ==
  \/ CallResetCollection
  \/ CallProcessDocuments
  \/ CallProcessUpload
  \/ Return

\* the crawler of the service and the ingestion of web content
NextWeb ==
  \/ CallCrawl
  \/ CallProcessWebContent
  \/ CrawlIteration
  \/ CrawlSave
  \/ ProcessWebIndex
  \/ CallResetCollection
  \/ CallProcessDocuments
  \/ Return

SpecWeb == InitCite /\ [][NextWeb]_vars

\* crawl() keeps running once called: every pass of its loop ends, by an
\* answer, by the timeout of requests.get or by an exception, and after the
\* loop the pages are saved and the call returns
SpecCrawl ==
  /\ InitCite
  /\ [][NextWeb]_vars
  /\ WF_vars(CrawlIteration)
  /\ WF_vars(CrawlSave)

SpecIngest == InitCite /\ [][NextIngest]_vars

\* ------------------------------------------------------------------- claims
Returned(o) == pc = "returned" /\ op = o

\* occurrences of x in the list s
Count(s, x) == Cardinality({i \in DOMAIN s : s[i] = x})

PassingCands(reported, threshold) ==
  {i \in DOMAIN reported : Scale - reported[i].dist >= threshold}

\* C1: query() returns exactly the reported candidates with 1 - d >= threshold,
\* each with similarity = 1 - d: nothing below the threshold is returned and
\* nothing at or above it is dropped.
C1_QueryFiltersByThreshold ==
  Returned("query") =>
    LET c == cands[1]
        r == context
    IN /\ \A k \in DOMAIN r :
            /\ r[k].similarity >= args.threshold
            /\ \E i \in DOMAIN c : /\ r[k].content = c[i].content
                                   /\ r[k].metadata = c[i].metadata
                                   /\ r[k].similarity = Scale - c[i].dist
       /\ \A i \in PassingCands(c, args.threshold) :
            \E k \in DOMAIN r : r[k].content = c[i].content
       /\ Len(r) = Cardinality(PassingCands(c, args.threshold))

\* a query that kept one candidate and dropped another
C1_Witness ==
  /\ Returned("query")
  /\ context # <<>>
  /\ Len(context) < Len(cands[1])

AllSimilaritiesInUnitRange ==
  \A p \in DOMAIN parts : \A k \in DOMAIN parts[p] :
     parts[p][k].similarity >= 0 /\ parts[p][k].similarity <= Scale

\* C2 as stated: every result of query() / retrieve() has 0 <= similarity <= 1
\* for every threshold a caller passes.
C2_Original ==
  op \in {"query", "process_query"} => AllSimilaritiesInUnitRange

\* C2 amended: for every threshold >= 0 every result of query() / retrieve()
\* has 0 <= similarity <= 1.
C2_SimilarityInUnitRange ==
  (op \in {"query", "process_query"} /\ args.threshold >= 0)
     => AllSimilaritiesInUnitRange

\* a query with a threshold >= 0 that returned a result and dropped a
\* candidate farther than distance 1
C2_Witness ==
  /\ Returned("query")
  /\ args.threshold >= 0
  /\ context # <<>>
  /\ \E i \in DOMAIN cands[1] : cands[1][i].dist > Scale

\* C3: a process_query whose context list is empty returns exactly the fixed
\* "I Don't Know." text with no sources, and the model is not invoked.
C3_NoContextShortCircuit ==
  (op = "process_query" /\ pc \in {"generate", "returned"} /\ context = <<>>)
     => /\ llmCalls = 0
        /\ pc = "returned" =>
             result = [text |-> <<"I Don't Know.">>, sources |-> <<>>]

\* a query over stored passages none of which passed the threshold
C3_Witness ==
  /\ Returned("process_query")
  /\ context = <<>>
  /\ \E p \in DOMAIN cands : cands[p] # <<>>
  /\ \A p \in DOMAIN failed : ~failed[p]

\* C4: retrieve_multi_collection returns the first top_k of all per-collection
\* results by similarity descending: min(top_k, total) results, non-increasing,
\* taken from the results, and nothing omitted beats anything included.
C4_MultiTopKOverall ==
  Returned("retrieve_multi") =>
    LET all == Concat(parts)
        r == context
    IN /\ Len(r) = Min(args.top_k, Len(all))
       /\ Len(r) <= args.top_k
       /\ \A i, j \in DOMAIN r : i < j => r[i].similarity >= r[j].similarity
       /\ \A x \in Range(r) : Count(r, x) <= Count(all, x)
       /\ \A x \in Range(all) :
            Count(all, x) > Count(r, x)
               => \A y \in Range(r) : y.similarity >= x.similarity

\* two collections contribute and the overall truncation omits a result
C4_Witness ==
  /\ Returned("retrieve_multi")
  /\ Len(parts) = 2
  /\ parts[1] # <<>> /\ parts[2] # <<>>
  /\ Len(Concat(parts)) > args.top_k
  /\ context # <<>>

DigitSet == Range(DigitTokens)

\* the text cites marker number n: "Document " followed by the digits of n
\* and by no further digit
CitesNumber(text, n) ==
  \E pos \in DOMAIN text :
     LET end == pos + Len(Digits(n))
     IN /\ text[pos] = "Document "
        /\ end <= Len(text)
        /\ SubSeq(text, pos + 1, end) = Digits(n)
        /\ end < Len(text) => text[end + 1] \notin DigitSet

SomeMarkerOccurs(text, ctx) ==
  \E i \in DOMAIN ctx : Contains(text, DocMarker(i, ctx[i].metadata.source_type))

Listed(i) ==
  \E k \in DOMAIN result.sources : result.sources[k].content = context[i].content

\* C5: when some marker occurs in the answer, the passage at position i is a
\* citation only if the answer cites marker number i+1.
C5_CitedOnlyIfOwnMarker ==
  (Returned("process_response") /\ SomeMarkerOccurs(args.text, context))
     => \A i \in DOMAIN context : Listed(i) => CitesNumber(args.text, i)

\* C6: the citations built from markers found in the answer are pairwise
\* different in (source, page).
C6_CitationsDeduplicated ==
  (Returned("process_response") /\ SomeMarkerOccurs(args.text, context))
     => \A a, b \in DOMAIN result.sources :
           a # b => ~ /\ result.sources[a].metadata.source
                           = result.sources[b].metadata.source
                      /\ result.sources[a].metadata.page
                           = result.sources[b].metadata.page

\* C7: an answer with no marker over n >= 1 passages gets the min(2, n)
\* passages of highest similarity as citations, by similarity descending; an
\* answer over a non-empty context never comes with no citation.
C7_FallbackTopTwo ==
  (Returned("process_response") /\ context # <<>>) =>
    /\ result.sources # <<>>
    /\ ~SomeMarkerOccurs(args.text, context) =>
         LET src == result.sources
         IN /\ Len(src) = Min(2, Len(context))
            /\ \A a, b \in DOMAIN src :
                  a < b => /\ src[a].similarity >= src[b].similarity
                           /\ src[a].content # src[b].content
            /\ \A k \in DOMAIN src : \E i \in DOMAIN context :
                  /\ src[k].content = context[i].content
                  /\ src[k].similarity = context[i].similarity
            /\ \A i \in DOMAIN context :
                  ~Listed(i) => \A k \in DOMAIN src :
                                   src[k].similarity >= context[i].similarity

\* no marker, three or more passages, the first one not among the best
C7_Witness ==
  /\ Returned("process_response")
  /\ ~SomeMarkerOccurs(args.text, context)
  /\ Len(context) >= 3
  /\ ~Listed(1)
  /\ Len(result.sources) = 2

\* C8: a failing model call makes generate_response raise, and process_query
\* turns that into the fixed error response with no sources; process_query
\* never raises.
C8_ModelFailureBecomesErrorResponse ==
  Returned("process_query") =>
    /\ ~raised
    /\ (llmCalls > 0 /\ ~llm.ok) =>
         /\ genRaised
         /\ result = [text |-> <<"I encountered an error while processing your query. Please try again.">>,
                      sources |-> <<>>]

\* a query with context whose model call failed
C8_Witness ==
  /\ Returned("process_query")
  /\ context # <<>>
  /\ ~llm.ok
  /\ genRaised

\* C9: query() never raises; with a missing or empty collection, or a failing
\* embedding or index lookup, it returns the empty list.
C9_QueryNeverRaises ==
  Returned("query") =>
    /\ ~raised
    /\ args.fault \in {"embedding", "index"} => context = <<>>
    /\ failed[1] => context = <<>>
    /\ entries[args.name] = <<>> => context = <<>>

\* a failed lookup on a collection holding a passage that would have passed
C9_Witness ==
  /\ Returned("query")
  /\ failed[1]
  /\ args.fault = "embedding"
  /\ \E i \in DOMAIN entries[args.name] :
        Scale - entries[args.name][i].dist >= args.threshold

RECURSIVE SumLen(_)
SumLen(ss) == IF ss = <<>> THEN 0 ELSE Len(Head(ss)) + SumLen(Tail(ss))

\* C10: retrieve_multi_collection returns [] for no collections; a failing
\* sub-query contributes nothing, every collection is still queried and the
\* results of the others are fused and returned; the call does not raise.
C10_FailingSubQuerySwallowed ==
  Returned("retrieve_multi") =>
    /\ ~raised
    /\ args.collections = <<>> => context = <<>>
    /\ Len(parts) = Len(args.collections)
    /\ \A p \in DOMAIN parts :
          IF failed[p] THEN parts[p] = <<>>
          ELSE Len(parts[p]) = Cardinality(PassingCands(cands[p], args.threshold))
    /\ Len(context) = Min(args.top_k, SumLen(parts))

\* one sub-query failed, another one's results were returned
C10_Witness ==
  /\ Returned("retrieve_multi")
  /\ \E p, q \in DOMAIN parts : failed[p] /\ ~failed[q] /\ parts[q] # <<>>
  /\ context # <<>>

\* C11: process_query returns the fixed error response only when the model
\* call failed; a failing retrieval (embedding or index error, missing
\* collection) only shrinks the context, and when every retrieval failed the
\* result is the fixed "I Don't Know." response, without a model call.
C11_ErrorResponseOnlyFromModel ==
  Returned("process_query") =>
    /\ result.text = <<"I encountered an error while processing your query. Please try again.">>
         => (llmCalls > 0 /\ ~llm.ok)
    /\ \A p \in DOMAIN failed : failed[p] => parts[p] = <<>>
    /\ Len(context) = Min(args.top_k, SumLen(parts))
    /\ (\A p \in DOMAIN failed : failed[p]) =>
         /\ llmCalls = 0
         /\ result = [text |-> <<"I Don't Know.">>, sources |-> <<>>]

\* both retrievals failed over collections that hold passing passages
C11_Witness ==
  /\ Returned("process_query")
  /\ Len(failed) = 2
  /\ failed[1] /\ failed[2]
  /\ \A n \in Names : \E i \in DOMAIN entries[n] :
        Scale - entries[n][i].dist >= args.threshold
  /\ result.text = <<"I Don't Know.">>

\* a step of reset_collection by the background task
ResetStep ==
  /\ task # NoTask
  /\ task.pc \in {"delete", "uncache", "create", "cache"}
  /\ task' # task

\* C12: reset_collection(name) leaves every other collection as it was: its
\* existence, its stored entries, and its cached handle, whether the reset
\* succeeds or fails.
C12_ResetTouchesOnlyNamed ==
  [][ResetStep =>
       \A n \in Names \ {task.name} :
          /\ (n \in exists') = (n \in exists)
          /\ entries'[n] = entries[n]
          /\ created'[n] = created[n]
          /\ (n \in collections') = (n \in collections)
          /\ handles'[n] = handles[n]]_vars

\* a reset of the web collection has run to its end, here a failing one,
\* next to a cached "documents" collection that holds entries
C12_Witness ==
  /\ task # NoTask
  /\ task.kind = "reset"
  /\ task.name = WEB_CRAWL_COLLECTION
  /\ task.pc = "done"
  /\ task.raised
  /\ entries["documents"] # <<>>
  /\ "documents" \in collections

\* the retrieval step of a chat query on the collection a task is resetting
RetrievalDuringReset ==
  /\ task # NoTask
  /\ ~task.faulted
  /\ task.existed
  /\ \/ pc = "retrieve_docs" /\ pc' # pc /\ task.name = "documents"
     \/ pc = "retrieve_web" /\ pc' # pc /\ task.name = WEB_CRAWL_COLLECTION

\* C13: reset_collection is atomic for its callers.  With no fault of the
\* client, and under every interleaving with a query on the same name, the
\* reset returns without raising and leaves the collection existing and
\* cached with a working handle; and no query acts on the state in which the
\* old collection is deleted and the new one not yet created.
C13_ResetAtomic ==
  /\ [](task # NoTask /\ ~task.faulted /\ task.pc \in {"add", "done"} =>
          /\ ~task.raised
          /\ task.name \in exists
          /\ task.name \in collections
          /\ handles[task.name] = created[task.name])
  /\ [][RetrievalDuringReset => task.name \in exists]_vars

\* what the retrieval of process_query sees of a collection: the contents
\* of the entries the index reports, in the order of the report
Contents(es) == [i \in DOMAIN es |-> es[i].content]

\* C14: a process_query concurrent with process_documents never sees a
\* partially written index: while the reindex is in flight, the entries of
\* "documents" its retrieval is given are the complete set from before the
\* reindex or the complete set the reindex stores.
C14_NoPartialIndex ==
  [][(/\ pc = "retrieve_docs"
      /\ pc' # pc
      /\ task # NoTask
      /\ task.kind = "reindex"
      /\ task.pc # "done"
      /\ ~failed'[1])
     => \/ Contents(cands'[1]) = Contents(task.before)
        \/ Contents(cands'[1]) = Contents(task.docs)]_vars

\* C15: get_or_create_collection is idempotent.  A call for a name without
\* cached handle opens or creates the collection and caches its handle; a
\* call for a cached name returns the cached handle, creates nothing and
\* changes no collection.
C15_GetOrCreateIdempotent ==
  [][(pc = "idle" /\ op' = "get_or_create") =>
       LET n == args'.name
       IN IF n \in collections
          THEN /\ ~raised'
               /\ result'.handle = handles[n]
               /\ UNCHANGED <<exists, entries, collections, created, handles>>
          ELSE ~raised' =>
                 /\ n \in exists'
                 /\ n \in collections'
                 /\ handles'[n] = created'[n]
                 /\ result'.handle = handles'[n]
                 /\ entries' = entries
                 /\ created'[n] = IF n \in exists THEN created[n] ELSE created[n] + 1
                 /\ \A o \in Names \ {n} :
                       /\ (o \in exists') = (o \in exists)
                       /\ (o \in collections') = (o \in collections)
                       /\ handles'[o] = handles[o]]_vars

\* a second call for the web collection, which the first call had to create
C15_Witness ==
  /\ Returned("get_or_create")
  /\ args.name = WEB_CRAWL_COLLECTION
  /\ args.cached
  /\ ~raised
  /\ result.handle = handles[WEB_CRAWL_COLLECTION]
  /\ entries[WEB_CRAWL_COLLECTION] = <<>>

\* C16: the ids VectorDatabase.add_documents hands to the index are as many
\* as the ids submitted and pairwise distinct, whatever strings the incoming
\* ids are.
C16_IdsMadeDistinct ==
  Returned("vector_db_add") =>
    /\ Len(result.ids) = Len(args.ids)
    /\ \A i, j \in DOMAIN result.ids : i # j => result.ids[i] # result.ids[j]

\* positions of the submitted documents that carry text
NonEmptyPositions(documents) ==
  {i \in DOMAIN documents : Len(documents[i].content) > 0}

\* C17: no entry is lost to an id collision: after a successful add of n
\* entries with text to a collection holding m entries, it holds m + n.
C17_NoEntryLostToIdCollision ==
  (Returned("add_documents") /\ ~raised) =>
    Len(entries[args.name]) =
      Len(args.stored) + Cardinality(NonEmptyPositions(args.documents))

\* the submitted position behind the k-th entry handed to the index
NthNonEmpty(documents, k) ==
  CHOOSE i \in NonEmptyPositions(documents) :
    Cardinality({j \in NonEmptyPositions(documents) : j <= i}) = k

PiecesOf(d) == SplitText(args.documents[d].content, args.chunk_size, args.widths[d])

\* the chunks the documents ahead of position d account for
ChunksBefore(d) == SumLen([e \in 1..(d - 1) |-> PiecesOf(e)])

\* every document's chunks are in the output, in order, the chunk at
\* position i carrying i under `key` and their number under total_chunks,
\* next to the fields of the parent metadata
StampedUnder(key) ==
  Returned("split_documents") =>
    /\ Len(result.chunks) = ChunksBefore(Len(args.documents) + 1)
    /\ \A d \in DOMAIN args.documents :
          /\ args.documents[d].content = <<>> => PiecesOf(d) = <<>>
          /\ \A i \in DOMAIN PiecesOf(d) :
                LET c == result.chunks[ChunksBefore(d) + i]
                    parent == args.documents[d].metadata
                IN /\ c.content = PiecesOf(d)[i]
                   /\ key \in DOMAIN c.metadata
                   /\ c.metadata[key] = i - 1
                   /\ c.metadata.total_chunks = Len(PiecesOf(d))
                   /\ \A f \in DOMAIN parent : c.metadata[f] = parent[f]

\* C19: split_documents stamps the chunks of every document: n chunks in
\* order, the chunk at position i carrying chunk_index = i and
\* total_chunks = n merged into a copy of the parent metadata; a document
\* with empty text contributes no chunk and does not fail the batch.
C19_ChunksStamped == StampedUnder("chunk_index")

\* C20: split_text, its fallback _simple_split included, returns only
\* non-empty chunks, none longer than chunk_size + chunk_overlap, for every
\* text and every chunk_size >= 1.
C20_ChunksNonEmptyAndBounded ==
  Returned("split_text") =>
    \A k \in DOMAIN result.chunks :
       /\ Len(result.chunks[k]) > 0
       /\ Len(result.chunks[k]) <= args.chunk_size + args.chunk_overlap

\* C21: process_query applies the top_k and the threshold its caller
\* supplies, for every threshold in the closed range [0, 1], to the
\* retrieval; the configured defaults are used only when the argument is
\* not supplied.
C21_SuppliedArgumentsApplied ==
  Returned("process_query") =>
    /\ \A t \in args.threshold_arg :
          (0 <= t /\ t <= Scale) =>
             /\ args.threshold = t
             /\ \A p \in DOMAIN parts :
                   ~failed[p] =>
                      Len(parts[p]) = Cardinality(PassingCands(cands[p], t))
    /\ \A k \in args.top_k_arg : args.top_k = k
    /\ args.threshold_arg = {} => args.threshold = RETRIEVAL_THRESHOLD
    /\ args.top_k_arg = {} => args.top_k = RETRIEVAL_TOP_K

\* C22: no retries.  Within one process_query the generative model is
\* invoked at most once and each collection is queried at most once
\* ("documents" first, then the web collection when include_web); after a
\* failed retrieval or a failed model call no further attempt at it is made
\* in that query.
C22_NoRetries ==
  /\ [](op = "process_query" =>
          /\ llmCalls <= 1
          /\ Len(cands) <= (IF args.include_web THEN 2 ELSE 1)
          /\ (llmCalls = 1 /\ ~llm.ok) => pc = "returned")
  /\ [][(op = "process_query" /\ op' = "process_query") =>
          /\ llmCalls' # llmCalls =>
               (llmCalls = 0 /\ llmCalls' = 1 /\ pc' = "returned")
          /\ cands' # cands =>
               /\ Len(cands') = Len(cands) + 1
               /\ \A p \in DOMAIN cands :
                     cands'[p] = cands[p] /\ failed'[p] = failed[p]
          /\ pc = "retrieve_docs" => pc' # "retrieve_docs"
          /\ pc = "retrieve_web" => pc' \notin {"retrieve_docs", "retrieve_web"}
          /\ pc = "generate" => pc' = "returned"]_vars

\* the retrieval from "documents" failed, the web collection gave the
\* context, and the one model call failed
C22_Witness ==
  /\ Returned("process_query")
  /\ Len(failed) = 2
  /\ failed[1] /\ ~failed[2]
  /\ context # <<>>
  /\ llmCalls = 1
  /\ ~llm.ok

\* C23: _format_context renders the passage at position i under marker number
\* i+1 (0-based i), in the order the passages were passed in: "Web Document
\* i+1" when source_type is web or web_faq, otherwise "Document i+1"; the
\* marker is the string _process_response searches the answer for.
C23_MarkersMatch ==
  Returned("format_context") =>
    /\ Len(result.parts) = Len(context)
    /\ result.text = JoinLines(result.parts)
    /\ \A i \in DOMAIN context :
          LET doc_marker == DocMarker(i, context[i].metadata.source_type)
              part == result.parts[i]
              head == <<"[">> \o doc_marker \o <<": ">>
              tail == <<"]", "\n">> \o context[i].content \o <<"\n">>
          IN /\ Len(part) >= Len(head) + Len(tail)
             /\ SubSeq(part, 1, Len(head)) = head
             /\ SubSeq(part, Len(part) - Len(tail) + 1, Len(part)) = tail
             /\ doc_marker =
                  (IF context[i].metadata.source_type \in {"web", "web_faq"}
                   THEN <<"Web ", "Document ">> ELSE <<"Document ">>) \o Digits(i)
             /\ Contains(result.text, doc_marker)
             /\ ProcessResponse(doc_marker, context).sources # <<>>
             /\ \E s \in Range(CitedSources(doc_marker, context, 1, <<>>)) :
                   s.metadata.source = SourceInfo(context[i]).metadata.source

\* a list with a web_faq passage ahead of a PDF page, and a two-digit marker
C23_Witness ==
  /\ Returned("format_context")
  /\ Len(context) >= 10
  /\ context[1].metadata.source_type = "web_faq"
  /\ context[2].metadata.page # ""
  /\ Contains(result.text, <<"[", "Document ", "1", "0", ": ">>)
  /\ Contains(result.text, <<"[", "Web ", "Document ", "1", ": ">>)

\* C24: a reset failure is propagated.  When create_collection fails during
\* the reset, reset_collection raises to its caller, and so do
\* process_documents and process_web_content, which begin with a reset; the
\* failure is never reported as a normal return value.
C24_ResetFailurePropagated ==
  (/\ pc = "returned"
   /\ op \in {"reset_collection", "process_documents", "process_web_content"}
   /\ args.create)
    => raised

\* the candidates are reported nearest first
NearestFirst(reported) ==
  \A p, q \in DOMAIN reported : p < q => reported[p].dist <= reported[q].dist

\* C25 (as the code has it): query() returns the passing candidates in the
\* order of the index's report, hence in non-increasing similarity order
\* whenever the index reports its candidates nearest first.
C25_OrderAsReported ==
  Returned("query_reported") =>
    LET reported == cands[1]
    IN /\ \A i, j \in DOMAIN context :
             i < j => \E p, q \in DOMAIN reported :
                         /\ p < q
                         /\ reported[p].content = context[i].content
                         /\ reported[q].content = context[j].content
       /\ NearestFirst(reported) =>
            \A i, j \in DOMAIN context :
               i < j => context[i].similarity >= context[j].similarity

\* C25 as stated: the results are in non-increasing similarity order for
\* every order of the index's report
C25_Original ==
  Returned("query_reported") =>
    \A i, j \in DOMAIN context :
       i < j => context[i].similarity >= context[j].similarity

\* two candidates of different similarity, reported nearest first, both
\* returned
C25_Witness ==
  /\ Returned("query_reported")
  /\ NearestFirst(cands[1])
  /\ Len(context) = 2
  /\ context[1].similarity > context[2].similarity

\* C26: every process_web_content(force_crawl=True) whose reset succeeded
\* performs a fresh crawl: the base url is requested during that call, and
\* what the call indexes are pages fetched by that call, also when the
\* crawler of the service has crawled the site before.
C26_ForceCrawlIsFresh ==
  (Returned("process_web_content") /\ args.force_crawl /\ args.crawled) =>
    /\ \E k \in DOMAIN requests :
          requests[k].url = WEB_CRAWL_BASE_URL /\ requests[k].call = calls
    /\ result.value > 0 =>
         \A i \in DOMAIN entries[WEB_CRAWL_COLLECTION] :
            entries[WEB_CRAWL_COLLECTION][i].metadata.timestamp = calls

\* the characters at the end of p that are the characters at the start of q
SharedLen(p, q) ==
  CHOOSE n \in 0..Min(Len(p), Len(q)) :
    /\ SubSeq(p, Len(p) - n + 1, Len(p)) = SubSeq(q, 1, n)
    /\ \A m \in (n + 1)..Min(Len(p), Len(q)) :
          SubSeq(p, Len(p) - m + 1, Len(p)) # SubSeq(q, 1, m)

\* C27: when _simple_split cuts a single sentence longer than chunk_size
\* into fixed-width pieces, every piece has at most chunk_size characters
\* and every two consecutive pieces, the last pair included, overlap by
\* exactly min(100, chunk_size // 10) characters.
C27_FixedWidthOverlap ==
  (Returned("simple_split") /\ Len(args.text) > args.chunk_size) =>
    LET pieces == result.chunks
        overlap == Min(100, args.chunk_size \div 10)
    IN /\ Len(pieces) >= 2
       /\ \A k \in DOMAIN pieces : Len(pieces[k]) <= args.chunk_size
       /\ \A k \in 1..(Len(pieces) - 1) :
             SharedLen(pieces[k], pieces[k + 1]) = overlap

\* no element occurs twice in s
NoRepeat(s) == \A i, j \in DOMAIN s : i # j => s[i] # s[j]

\* C28: crawl() terminates, with the queue empty, whatever links the pages
\* of the (finite) site carry; and over the lifetime of the crawler no url
\* is requested more than once and the queue never holds a url twice.
C28_CrawlTerminates ==
  /\ [](NoRepeat([k \in DOMAIN requests |-> requests[k].url]))
  /\ [](NoRepeat(web_crawler.queue))
  /\ [][(pc = "crawl" /\ pc' # "crawl") => web_crawler.queue = <<>>]_vars
  /\ (pc = "crawl") ~> (pc # "crawl" /\ web_crawler.queue = <<>>)

\* the second crawl() of the crawler has returned; the first one fetched
\* both pages of the site
C28_Witness ==
  /\ Returned("crawl")
  /\ calls = 2
  /\ web_crawler.visited_urls = Urls
  /\ Len(web_crawler.content_data) = 2
  /\ Len(requests) = 2
  /\ web_crawler.queue = <<>>

\* C29: reindexing replaces rather than accumulates.  After a successful
\* process_documents(), whatever calls of process_documents and of the
\* upload processing came before it, "documents" holds exactly the chunks
\* that call produced, and as many as the chunk count it returned; so a
\* second call over the same corpus leaves the count of the first.
C29_ReindexReplaces ==
  (Returned("process_documents") /\ ~raised) =>
    LET stored == entries["documents"]
    IN /\ Len(stored) = result.value
       /\ Len(stored) = Len(context)
       /\ \A k \in DOMAIN stored :
             /\ stored[k].content = context[k].content
             /\ stored[k].metadata = context[k].metadata
       /\ NoRepeat([k \in DOMAIN stored |-> stored[k].id])

\* a result list without the collection-name stamp
Unstamp(results) == Stamp(results, "unset")

\* C30: with include_web, the context process_query fuses inline is the
\* ranked list retrieve_multi_collection returns for ["documents", the web
\* collection], the same top_k and threshold and the same index: the same
\* passages in the same order, the collection stamp aside; it has at most
\* top_k passages and is sorted by similarity descending.
C30_InlineFusionMatchesMulti ==
  (Returned("process_query") /\ args.include_web /\ Len(parts) = 2) =>
    LET faults == [p \in 1..2 |-> IF failed[p] THEN "index" ELSE "none"]
        multi == RetrieveMultiCollection(
                   Store(exists, entries, collections, created, handles),
                   <<"documents", WEB_CRAWL_COLLECTION>>, faults,
                   args.top_k, args.threshold)
    IN /\ multi.failed = failed
       /\ Unstamp(multi.result) = context
       /\ Len(context) <= args.top_k
       /\ \A i, j \in DOMAIN context :
             i < j => context[i].similarity >= context[j].similarity

\* both collections gave passages, a passage of each with the same
\* similarity, and the fused list was cut to top_k
C30_Witness ==
  /\ Returned("process_query")
  /\ args.include_web
  /\ Len(parts) = 2
  /\ parts[1] # <<>> /\ parts[2] # <<>>
  /\ parts[1][1].similarity = parts[2][1].similarity
  /\ Len(parts[1]) + Len(parts[2]) > args.top_k
  /\ Len(context) = args.top_k

====
